---- MODULE Spec2Model ----
(***************************************************************************)
(* A model of the Langbly translate action: the batch scheduler            *)
(* (src/src/main.ts, utils part), the retry loop of the translation client *)
(* (src/src/client.ts), the placeholder guard (src/src/placeholders.ts),   *)
(* the JSON codec with diff and merge (src/src/formats/json.ts) and the    *)
(* JSON pipeline of one (source file, target language) pair                *)
(* (src/src/translate.ts), and the Markdown frontmatter splitter           *)
(* (src/src/formats/markdown.ts).                                          *)
(*                                                                         *)
(* A JavaScript string is a sequence of one-character strings, so that     *)
(* length, concatenation, search and splitting are those of the code.      *)
(***************************************************************************)
EXTENDS Integers, Sequences, FiniteSets, TLC

VARIABLES
    \* batchStrings (main.ts 197-238): its arguments and its locals
    strings, maxItems, maxChars, batches, currentBatch, currentChars, bIdx, bPc,
    \* LangblyClient.postWithRetry (client.ts 62-122): the loop counter, the
    \* control position, and what the call has done and received so far
    attempt, cPc, requests, sleeps, responses, cResult,
    \* protectPlaceholders / restorePlaceholders (placeholders.ts 26-55): the
    \* pieces the input text is made of, the text, the ProtectedText, the
    \* text handed to restore, the restored text, and the control position
    phPieces, phInput, phProtected, phText, phOutput, phPc,
    \* computeDiff / mergeTranslations (json.ts 71-110): the source document,
    \* the arguments, the results, and the control position
    sourceJson, sourceEntries, existingTarget, translated, toTranslate, merged, dPc,
    \* translateJsonFile and batchTranslateWithPlaceholders (translate.ts
    \* 84-149, 262-301) on one (source file, target language) pair: the
    \* files, the dry-run flag, the locals, and what the run has done
    pSource, pTargetFile, pTargetBefore, pDryRun, pPc,
    pEntries, pExisting, pToTranslate, pProtected, pBatches, pI, pEntryIndex,
    pTranslated, pRequests, pWrites, pResult,
    \* the format of the source file, the content of a Markdown source and
    \* its two parts (translate.ts 218-255), and the number of source
    \* characters of the strings sent to the service so far
    pFormat, pContent, pMd, pSubmitted,
    \* what client.translate returned for each batch of the pair so far
    \* (results, translate.ts 284)
    pReplies,
    \* the number of the run of the action on this pair: 1, or more when the
    \* action runs again on the files the run before has left
    pRunNo,
    \* translateFiles (translate.ts 45-82): the position in
    \* config.targetLanguages, the control position, the two totals, and
    \* what the pairs already processed have done
    rIdx, rPc, totalFiles, totalChars, tRequests, tSubmitted, tWrites,
    \* splitMarkdown / assembleMarkdown (markdown.ts 15-47): the content, the
    \* MarkdownFile, the reassembled text, and the control position
    mdContent, mdFile, mdOut, mdPc,
    \* detectFormat (main.ts 157-163): the file path, the format returned,
    \* and the control position
    fPath, fFormat, fPc

batchVars == <<strings, maxItems, maxChars, batches, currentBatch, currentChars, bIdx, bPc>>
clientVars == <<attempt, cPc, requests, sleeps, responses, cResult>>

phVars == <<phPieces, phInput, phProtected, phText, phOutput, phPc>>

docVars == <<sourceJson, sourceEntries, existingTarget, translated, toTranslate, merged, dPc>>

pipeFiles == <<pSource, pContent, pFormat, pTargetFile, pTargetBefore, pDryRun, pRunNo>>
pipeLocals == <<pEntries, pExisting, pToTranslate, pProtected, pBatches, pI, pEntryIndex,
                pTranslated, pMd>>
pipeVars == <<pipeFiles, pPc, pipeLocals, pRequests, pReplies, pSubmitted, pWrites, pResult>>

runVars == <<rIdx, rPc, totalFiles, totalChars, tRequests, tSubmitted, tWrites>>

mdVars == <<mdContent, mdFile, mdOut, mdPc>>

fmtVars == <<fPath, fFormat, fPc>>

vars == <<batchVars, clientVars, phVars, docVars, pipeVars, mdVars, runVars, fmtVars>>

\* What each component leaves alone.
notBatchVars == <<clientVars, phVars, docVars, pipeVars, mdVars, runVars, fmtVars>>
notClientVars == <<batchVars, phVars, docVars, pipeVars, mdVars, runVars, fmtVars>>
notPhVars == <<batchVars, clientVars, docVars, pipeVars, mdVars, runVars, fmtVars>>
notDocVars == <<batchVars, clientVars, phVars, pipeVars, mdVars, runVars, fmtVars>>
notPipeVars == <<batchVars, clientVars, phVars, docVars, mdVars, runVars, fmtVars>>
notMdVars == <<batchVars, clientVars, phVars, docVars, pipeVars, runVars, fmtVars>>
notFmtVars == <<batchVars, clientVars, phVars, docVars, pipeVars, mdVars, runVars>>
\* A run of translateFiles changes the variables of its pairs and its own.
notRunVars == <<batchVars, clientVars, phVars, docVars, mdVars, fmtVars>>

\* The components a specification does not exercise stay as constructed.
BatchIdle ==
    /\ strings = <<>> /\ maxItems = 0 /\ maxChars = 0
    /\ batches = <<>> /\ currentBatch = <<>> /\ currentChars = 0
    /\ bIdx = 1 /\ bPc = "idle"

ClientIdle ==
    /\ attempt = 0 /\ cPc = "idle" /\ requests = 0
    /\ sleeps = <<>> /\ responses = <<>>
    /\ cResult = [kind |-> "idle", status |-> 0, attemptsNamed |-> 0, body |-> ""]

PhIdle ==
    /\ phPieces = <<>> /\ phInput = <<>>
    /\ phProtected = [text |-> <<>>, placeholders |-> <<>>]
    /\ phText = <<>> /\ phOutput = <<>> /\ phPc = "idle"

\* existingTarget = null (translate.ts 102).
NullTarget == [present |-> FALSE, doc |-> <<>>]

DocIdle ==
    /\ sourceJson = <<>> /\ sourceEntries = <<>>
    /\ existingTarget = NullTarget
    /\ translated = <<>> /\ toTranslate = <<>> /\ merged = <<>>
    /\ dPc = "idle"

\* No file at the output path.
AbsentFile == [state |-> "absent", doc |-> <<>>]
NoResult == [files |-> 0, chars |-> 0]

\* { frontmatter: null, body: "" }
NoMarkdownFile == [frontmatter |-> [null |-> TRUE, text |-> <<>>], body |-> <<>>]

PipeLocalsIdle ==
    /\ pEntries = <<>> /\ pExisting = NullTarget /\ pToTranslate = <<>>
    /\ pProtected = <<>> /\ pBatches = <<>> /\ pI = 0 /\ pEntryIndex = 0
    /\ pTranslated = <<>> /\ pMd = NoMarkdownFile

PipeIdle ==
    /\ pSource = <<>> /\ pTargetFile = AbsentFile /\ pTargetBefore = AbsentFile
    /\ pDryRun = FALSE /\ pRunNo = 1 /\ pPc = "idle"
    /\ pFormat = "json" /\ pContent = <<>>
    /\ PipeLocalsIdle
    /\ pRequests = <<>> /\ pReplies = <<>> /\ pSubmitted = 0 /\ pWrites = 0 /\ pResult = NoResult

\* No run of translateFiles: a pair is translated on its own.
RunIdle ==
    /\ rIdx = 0 /\ rPc = "idle"
    /\ totalFiles = 0 /\ totalChars = 0
    /\ tRequests = 0 /\ tSubmitted = 0 /\ tWrites = 0

FormatIdle == fPath = <<>> /\ fFormat = "" /\ fPc = "idle"

MdIdle == mdContent = <<>> /\ mdFile = NoMarkdownFile /\ mdOut = <<>> /\ mdPc = "idle"

(***************************************************************************)
(* Generic helpers on sequences.                                           *)
(***************************************************************************)
Range(s) == {s[i] : i \in 1..Len(s)}

RECURSIVE Flatten(_)
\* The concatenation, in order, of a sequence of sequences.
Flatten(ss) == IF ss = <<>> THEN <<>> ELSE Head(ss) \o Flatten(Tail(ss))

RECURSIVE SumLen(_)
\* The sum of the lengths of the strings of a sequence.
SumLen(ss) == IF ss = <<>> THEN 0 ELSE Len(Head(ss)) + SumLen(Tail(ss))

\* All sequences over S of length at most n.
SeqsUpTo(S, n) == UNION {[1..k -> S] : k \in 0..n}

(***************************************************************************)
(* Batch scheduler: batchStrings(strings, maxItems, maxChars).             *)
(***************************************************************************)
\* Bounds of the inputs explored.
MaxBatchInput == 4
MaxItemsBound == 3
MaxCharsBound == 3

\* Strings of length 0, 1, 2 and 3, told apart by their characters.
BatchStringSet == {<<>>, <<"a">>, <<"b", "b">>, <<"c", "c", "c">>}

\* The state of the loop before its first iteration (main.ts 202-204).
BatchStart == [batches |-> <<>>, currentBatch |-> <<>>, currentChars |-> 0]

\* The oversized branch of the loop body (main.ts 210-218).
BatchOversized(st, s) ==
    [batches |-> (IF Len(st.currentBatch) > 0
                  THEN Append(st.batches, st.currentBatch)
                  ELSE st.batches) \o <<(<<s>>)>>,
     currentBatch |-> IF Len(st.currentBatch) > 0 THEN <<>> ELSE st.currentBatch,
     currentChars |-> IF Len(st.currentBatch) > 0 THEN 0 ELSE st.currentChars]

\* A closing test that forgets the item count.
BatchMustFlush_CharsOnly(st, len, mItems, mChars) ==
    st.currentChars + len > mChars

\* A closing test that forgets the character budget.
BatchMustFlush_ItemsOnly(st, len, mItems, mChars) ==
    Len(st.currentBatch) >= mItems

\* The test that closes the accumulating batch (main.ts 220-223).
BatchMustFlush(st, len, mItems, mChars) ==
    Len(st.currentBatch) >= mItems \/ st.currentChars + len > mChars

\* The accumulating branch of the loop body (main.ts 220-230).
BatchAccumulate(st, s, mItems, mChars) ==
    LET flush == BatchMustFlush(st, Len(s), mItems, mChars)
        cb == IF flush THEN <<>> ELSE st.currentBatch
        cc == IF flush THEN 0 ELSE st.currentChars
    IN [batches |-> IF flush THEN Append(st.batches, st.currentBatch) ELSE st.batches,
        currentBatch |-> Append(cb, s),
        currentChars |-> cc + Len(s)]

\* One iteration of the loop (main.ts 206-231).
BatchIter(st, s, mItems, mChars) ==
    IF Len(s) > mChars
    THEN BatchOversized(st, s)
    ELSE BatchAccumulate(st, s, mItems, mChars)

\* A return that forgets the batch still accumulating.
BatchFinal_NoFlush(st) == st.batches

\* The final flush and the return value (main.ts 233-237).
BatchFinal(st) ==
    IF Len(st.currentBatch) > 0 THEN Append(st.batches, st.currentBatch) ELSE st.batches

RECURSIVE BatchLoop(_, _, _, _)
BatchLoop(st, ss, mItems, mChars) ==
    IF ss = <<>> THEN st
    ELSE BatchLoop(BatchIter(st, Head(ss), mItems, mChars), Tail(ss), mItems, mChars)

\* batchStrings as a function of its arguments (main.ts 197-238).
batchStrings(ss, mItems, mChars) == BatchFinal(BatchLoop(BatchStart, ss, mItems, mChars))

BatchInit ==
    /\ strings \in SeqsUpTo(BatchStringSet, MaxBatchInput)
    /\ maxItems \in 0..MaxItemsBound
    /\ maxChars \in 0..MaxCharsBound
    /\ batches = BatchStart.batches
    /\ currentBatch = BatchStart.currentBatch
    /\ currentChars = BatchStart.currentChars
    /\ bIdx = 1
    /\ bPc = "loop"

BatchLocals == [batches |-> batches, currentBatch |-> currentBatch, currentChars |-> currentChars]

BatchSet(st) ==
    /\ batches' = st.batches
    /\ currentBatch' = st.currentBatch
    /\ currentChars' = st.currentChars

\* An iteration on a string longer than maxChars.
BatchStepOversized ==
    /\ bPc = "loop" /\ bIdx <= Len(strings)
    /\ Len(strings[bIdx]) > maxChars
    /\ BatchSet(BatchIter(BatchLocals, strings[bIdx], maxItems, maxChars))
    /\ bIdx' = bIdx + 1
    /\ UNCHANGED <<strings, maxItems, maxChars, bPc>>
    /\ UNCHANGED notBatchVars

\* An iteration on a string that fits the character budget.
BatchStepAccumulate ==
    /\ bPc = "loop" /\ bIdx <= Len(strings)
    /\ ~(Len(strings[bIdx]) > maxChars)
    /\ BatchSet(BatchIter(BatchLocals, strings[bIdx], maxItems, maxChars))
    /\ bIdx' = bIdx + 1
    /\ UNCHANGED <<strings, maxItems, maxChars, bPc>>
    /\ UNCHANGED notBatchVars

\* The end of the loop: the final flush, and the return.
BatchReturn ==
    /\ bPc = "loop" /\ bIdx > Len(strings)
    /\ batches' = BatchFinal(BatchLocals)
    /\ bPc' = "done"
    /\ UNCHANGED <<strings, maxItems, maxChars, currentBatch, currentChars, bIdx>>
    /\ UNCHANGED notBatchVars

BatchNext == BatchStepOversized \/ BatchStepAccumulate \/ BatchReturn

\* Only batchStrings runs.
BatchSpecInit == BatchInit /\ ClientIdle /\ PhIdle /\ DocIdle /\ PipeIdle /\ MdIdle /\ RunIdle /\ FormatIdle

BatchSpec == BatchSpecInit /\ [][BatchNext]_vars

BatchDone == bPc = "done"


\* C6 as stated: for every maxItems, every returned batch holds at most
\* maxItems strings.
C6_EveryMaxItems ==
    BatchDone => \A i \in 1..Len(batches) : Len(batches[i]) <= maxItems

\* C6, amended: for every maxItems >= 1 and every maxChars, every returned
\* batch holds at most maxItems strings.
C6_AtMostMaxItems ==
    (BatchDone /\ maxItems >= 1) =>
        \A i \in 1..Len(batches) : Len(batches[i]) <= maxItems

\* The input was split on the item count: a full batch, followed by another.
C6_Witness ==
    /\ BatchDone /\ maxItems >= 1 /\ Len(batches) >= 2
    /\ Len(batches[1]) = maxItems
    /\ SumLen(batches[1]) + Len(batches[2][1]) <= maxChars

\* C7: in every returned batch the sum of the string lengths is at most
\* maxChars unless the batch is a single string; a string longer than
\* maxChars is alone in its batch.
C7_CharBudget ==
    BatchDone =>
        \A i \in 1..Len(batches) :
            /\ Len(batches[i]) = 1 \/ SumLen(batches[i]) <= maxChars
            /\ \A j \in 1..Len(batches[i]) :
                   Len(batches[i][j]) > maxChars => Len(batches[i]) = 1

\* An oversized string alone after a batch of several strings that fills the
\* character budget exactly.
C7_Witness ==
    /\ BatchDone /\ Len(batches) >= 2
    /\ Len(batches[1]) >= 2 /\ SumLen(batches[1]) = maxChars
    /\ \E i \in 2..Len(batches) : Len(batches[i][1]) > maxChars

\* C8: the batches, concatenated in order, are the input sequence, and an
\* empty input yields no batch.
C8_Concatenation ==
    BatchDone =>
        /\ Flatten(batches) = strings
        /\ (strings = <<>> => batches = <<>>)

\* An input of several distinct strings returned in several batches.
C8_Witness ==
    /\ BatchDone /\ Len(batches) >= 2 /\ Len(strings) >= 3
    /\ strings[1] # strings[2] /\ strings[2] # strings[3]

RECURSIVE BatchPosition(_, _, _)
\* Where the k-th string counted from batch b of bs lies: its batch and its
\* place in that batch.
BatchPosition(bs, k, b) ==
    IF k <= Len(bs[b]) THEN [batch |-> b, place |-> k]
    ELSE BatchPosition(bs, k - Len(bs[b]), b + 1)

\* The returned batches end a batch between input strings k and k + 1.
BoundaryAfter(k) ==
    BatchPosition(batches, k, 1).batch # BatchPosition(batches, k + 1, 1).batch

\* The batch holding string k is full when k has been added, or string
\* k + 1 does not fit the characters left in it.
NoRoomAfter(k) ==
    LET pos == BatchPosition(batches, k, 1)
        held == SubSeq(batches[pos.batch], 1, pos.place)
    IN Len(held) >= maxItems \/ SumLen(held) + Len(strings[k + 1]) > maxChars

\* C26: for maxItems >= 1 the returned batches end a batch between two
\* consecutive input strings that are both at most maxChars long exactly
\* when the batch holding the first already has maxItems strings or adding
\* the second would take its characters over maxChars; after an iteration
\* on a string longer than maxChars that string is the last batch, alone,
\* and nothing is accumulating: no string and zero characters.
C26_GreedyPacking ==
    maxItems >= 1 =>
        /\ BatchDone =>
             \A k \in 1..(Len(strings) - 1) :
                 (Len(strings[k]) <= maxChars /\ Len(strings[k + 1]) <= maxChars)
                     => (BoundaryAfter(k) <=> NoRoomAfter(k))
        /\ (bPc = "loop" /\ bIdx > 1 /\ Len(strings[bIdx - 1]) > maxChars) =>
             /\ currentBatch = <<>> /\ currentChars = 0
             /\ batches # <<>> /\ batches[Len(batches)] = <<strings[bIdx - 1]>>
             /\ Flatten(batches) = SubSeq(strings, 1, bIdx - 1)

\* The three kinds of place between fitting strings occur in one input, a
\* boundary on the item count, a boundary on the characters and no boundary,
\* and an oversized string follows strings that were accumulating.
C26_Witness ==
    /\ BatchDone /\ maxItems >= 2 /\ Len(strings) = 4
    /\ \E k \in 1..3 :
         /\ Len(strings[k]) <= maxChars /\ Len(strings[k + 1]) <= maxChars
         /\ ~BoundaryAfter(k)
    /\ \E k \in 1..3 :
         /\ Len(strings[k]) <= maxChars /\ Len(strings[k + 1]) <= maxChars
         /\ BoundaryAfter(k)
         /\ Len(batches[BatchPosition(batches, k, 1).batch]) < maxItems
    /\ \E k \in 2..4 : Len(strings[k]) > maxChars /\ Len(strings[k - 1]) <= maxChars

(***************************************************************************)
(* Translation client: LangblyClient.postWithRetry (client.ts 62-122).     *)
(***************************************************************************)
\* this.maxRetries (client.ts 29).
MaxRetries == 2
\* The first backoff delay, in ms (client.ts 88, 111).
BaseDelayMs == 500
\* The cap of a hinted delay, in ms (client.ts 110).
MaxDelayMs == 30000

\* The retriable set without the rate-limit status.
RETRIABLE_STATUS_CODES_No429 == {500, 502, 503, 504}

\* RETRIABLE_STATUS_CODES (client.ts 19).
RETRIABLE_STATUS_CODES == {429, 500, 502, 503, 504}

\* The statuses the service answers with: success, client errors, the
\* retriable ones, and a server error outside the retriable set.
Statuses == {200, 400, 401, 429, 500, 501, 502, 503, 504}

\* resp.ok (client.ts 96): a status in 200..299.
RespOk(status) == status >= 200 /\ status <= 299

\* The retry-after header of a response: absent (headers.get gives null), the
\* empty string, a number of seconds, or text that Number() turns into NaN.
HintSeconds == {0, 1, 2, 60}
NoHint == [kind |-> "absent", secs |-> 0]
Hints ==
    {NoHint, [kind |-> "empty", secs |-> 0], [kind |-> "nan", secs |-> 0]}
        \cup {[kind |-> "num", secs |-> n] : n \in HintSeconds \cup {-1}}

\* The bodies of a successful response.
OkBodies == {"translationsA", "translationsB"}

RECURSIVE Pow2(_)
Pow2(n) == IF n = 0 THEN 1 ELSE 2 * Pow2(n - 1)

\* A delay handed to sleep(): a number of ms, or NaN.
Ms(n) == [nan |-> FALSE, ms |-> n]
NaNDelay == [nan |-> TRUE, ms |-> 0]

\* A backoff that does not grow.
Backoff_Constant(a) == Ms(BaseDelayMs)

\* 500 * 2 ** attempt (client.ts 88, 111).
Backoff(a) == Ms(BaseDelayMs * Pow2(a))

\* Math.min(x, 30_000) (client.ts 110).
MinCap(n) == IF n < MaxDelayMs THEN n ELSE MaxDelayMs

\* The delay before the next attempt after a retriable status
\* (client.ts 108-111): a non-empty header is truthy.
RetryDelay(hint, a) ==
    CASE hint.kind = "num" -> Ms(MinCap(hint.secs * 1000))
      [] hint.kind = "nan" -> NaNDelay
      [] OTHER -> Backoff(a)

\* A retry guard that lets the last attempt wait too.
CanRetry_Always(a) == a <= MaxRetries

\* attempt < this.maxRetries (client.ts 87, 107).
CanRetry(a) == a < MaxRetries

\* A count that leaves out the first attempt.
AttemptsMade_RetriesOnly == MaxRetries

\* The number of attempts named by the error of the network-failure branch:
\* this.maxRetries + 1 (client.ts 92).
AttemptsMade == MaxRetries + 1

Pending == [kind |-> "pending", status |-> 0, attemptsNamed |-> 0, body |-> ""]

\* The call starts: attempt = 0 (client.ts 73-75).
ClientInit ==
    /\ attempt = 0 /\ cPc = "attempt" /\ requests = 0
    /\ sleeps = <<>> /\ responses = <<>>
    /\ cResult = Pending

\* fetch is called (client.ts 78-84): one request is issued.
ClientSend ==
    /\ cPc = "attempt"
    /\ requests' = requests + 1
    /\ cPc' = "awaiting"
    /\ UNCHANGED <<attempt, sleeps, responses, cResult>>
    /\ UNCHANGED notClientVars

\* fetch rejects: a network failure, or the 30 s timeout (client.ts 85-94).
ClientNetworkFailure ==
    /\ cPc = "awaiting"
    /\ responses' = Append(responses, [kind |-> "network", status |-> 0, hint |-> NoHint, body |-> ""])
    /\ IF CanRetry(attempt)
       THEN /\ sleeps' = Append(sleeps, Backoff(attempt))
            /\ cPc' = "sleep"
            /\ UNCHANGED cResult
       ELSE /\ cPc' = "thrown"
            /\ cResult' = [kind |-> "failedAfterAttempts", status |-> 0,
                           attemptsNamed |-> AttemptsMade, body |-> ""]
            /\ UNCHANGED sleeps
    /\ UNCHANGED <<attempt, requests>>
    /\ UNCHANGED notClientVars

\* A 2xx response whose body parses (client.ts 96-98).
ClientOk ==
    /\ cPc = "awaiting"
    /\ \E st \in Statuses, b \in OkBodies :
        /\ RespOk(st)
        /\ responses' = Append(responses, [kind |-> "http", status |-> st, hint |-> NoHint, body |-> b])
        /\ cResult' = [kind |-> "data", status |-> st, attemptsNamed |-> 0, body |-> b]
    /\ cPc' = "returned"
    /\ UNCHANGED <<attempt, requests, sleeps>>
    /\ UNCHANGED notClientVars

\* A 2xx response whose body is not JSON: resp.json() rejects outside the
\* try block (client.ts 97).
ClientOkBadBody ==
    /\ cPc = "awaiting"
    /\ \E st \in Statuses :
        /\ RespOk(st)
        /\ responses' = Append(responses, [kind |-> "http", status |-> st, hint |-> NoHint, body |-> "notJson"])
        /\ cResult' = [kind |-> "badBody", status |-> st, attemptsNamed |-> 0, body |-> ""]
    /\ cPc' = "thrown"
    /\ UNCHANGED <<attempt, requests, sleeps>>
    /\ UNCHANGED notClientVars

\* A status outside the retriable set (client.ts 100-105).
ClientNotRetriable ==
    /\ cPc = "awaiting"
    /\ \E st \in Statuses, h \in Hints :
        /\ ~RespOk(st) /\ st \notin RETRIABLE_STATUS_CODES
        /\ responses' = Append(responses, [kind |-> "http", status |-> st, hint |-> h, body |-> "error"])
        /\ cResult' = [kind |-> "apiError", status |-> st, attemptsNamed |-> 0, body |-> "error"]
    /\ cPc' = "thrown"
    /\ UNCHANGED <<attempt, requests, sleeps>>
    /\ UNCHANGED notClientVars

\* A retriable status (client.ts 107-118): wait and go on, or give up.
ClientRetriable ==
    /\ cPc = "awaiting"
    /\ \E st \in Statuses, h \in Hints :
        /\ ~RespOk(st) /\ st \in RETRIABLE_STATUS_CODES
        /\ responses' = Append(responses, [kind |-> "http", status |-> st, hint |-> h, body |-> "error"])
        /\ IF CanRetry(attempt)
           THEN /\ sleeps' = Append(sleeps, RetryDelay(h, attempt))
                /\ cPc' = "sleep"
                /\ UNCHANGED cResult
           ELSE /\ cPc' = "thrown"
                /\ cResult' = [kind |-> "apiError", status |-> st, attemptsNamed |-> 0, body |-> "error"]
                /\ UNCHANGED sleeps
    /\ UNCHANGED <<attempt, requests>>
    /\ UNCHANGED notClientVars

\* The sleep ends; continue: attempt++ and the loop test (client.ts 75),
\* with the throw after the loop (client.ts 121).
ClientWake ==
    /\ cPc = "sleep"
    /\ attempt' = attempt + 1
    /\ IF attempt + 1 <= MaxRetries
       THEN cPc' = "attempt" /\ UNCHANGED cResult
       ELSE /\ cPc' = "thrown"
            /\ cResult' = [kind |-> "lastError", status |-> 0, attemptsNamed |-> 0, body |-> ""]
    /\ UNCHANGED <<requests, sleeps, responses>>
    /\ UNCHANGED notClientVars

ClientNext ==
    \/ ClientSend
    \/ ClientNetworkFailure
    \/ ClientOk
    \/ ClientOkBadBody
    \/ ClientNotRetriable
    \/ ClientRetriable
    \/ ClientWake

\* Only one call of postWithRetry runs.
ClientSpecInit == ClientInit /\ BatchIdle /\ PhIdle /\ DocIdle /\ PipeIdle /\ MdIdle /\ RunIdle /\ FormatIdle

ClientSpec == ClientSpecInit /\ [][ClientNext]_vars

\* Every fetch settles (a response, a network failure or the 30 s timeout)
\* and every timer fires, so a step that can be taken is taken.
ClientLiveSpec == ClientSpec /\ WF_vars(ClientNext)

ClientTerminated == cPc \in {"returned", "thrown"}

Status(i) == responses[i].status

\* The service answered 503, 503 and then success, and the call returned.
Twice503ThenOk ==
    /\ cPc = "returned" /\ Len(responses) = 3
    /\ \A i \in 1..2 : responses[i].kind = "http" /\ Status(i) = 503
    /\ responses[3].kind = "http" /\ RespOk(Status(3))

\* A response that carries no retry hint: no retry-after header, or an empty one.
Hintless(i) == responses[i].hint.kind \in {"absent", "empty"}

\* The second wait is strictly longer than the first.
SecondWaitLonger ==
    /\ Len(sleeps) = 2
    /\ ~sleeps[1].nan /\ ~sleeps[2].nan
    /\ sleeps[2].ms > sleeps[1].ms

\* C9 as stated: after 503, 503, success the call returns the successful
\* result after exactly 3 requests, and the wait before the second retry is
\* strictly longer than the wait before the first (500 ms then 1000 ms when
\* no retry hint is given).
C9_WaitsAlwaysIncrease ==
    Twice503ThenOk =>
        /\ requests = 3
        /\ cResult.kind = "data" /\ cResult.body = responses[3].body
        /\ SecondWaitLonger
        /\ (Hintless(1) /\ Hintless(2)) => sleeps = <<Ms(500), Ms(1000)>>

\* C9, amended: after 503, 503, success the call returns the successful
\* result after exactly 3 requests and 2 waits; when neither 503 response
\* carries a retry hint the waits are 500 ms then 1000 ms, the second
\* strictly longer than the first.
C9_ThreeRequestsBackoff ==
    Twice503ThenOk =>
        /\ requests = 3
        /\ cResult.kind = "data" /\ cResult.body = responses[3].body
        /\ Len(sleeps) = 2
        /\ (Hintless(1) /\ Hintless(2)) =>
              (sleeps = <<Ms(500), Ms(1000)>> /\ SecondWaitLonger)

\* 503 twice without a retry hint, then success.
C9_Witness ==
    /\ Twice503ThenOk /\ Hintless(1) /\ Hintless(2)
    /\ responses[1].hint.kind = "absent"
    /\ requests = 3 /\ cResult.kind = "data"

\* C10: every call ends, with a result or with a terminal error, after at
\* most maxRetries + 1 = 3 requests; no 4th request is issued, and no wait
\* follows the last attempt.
C10_TerminatesWithinBudget ==
    /\ <>ClientTerminated
    /\ [](requests <= 3)
    /\ [](cPc = "sleep" => requests <= 2)
    /\ [](ClientTerminated =>
            /\ Len(sleeps) < requests
            /\ cResult.kind \in {"data", "failedAfterAttempts", "apiError", "badBody"})

\* The retry budget is used up: three requests failed, after two waits.
C10_Witness ==
    /\ cPc = "thrown" /\ requests = 3 /\ Len(sleeps) = 2
    /\ responses[3].kind = "network" /\ Status(1) = 429
    /\ cResult.kind = "failedAfterAttempts"

\* Attempt i failed: fetch rejected, or the status is not a 2xx.
Failed(i) == responses[i].kind = "network" \/ ~RespOk(Status(i))

\* Attempt i is the one that has just been answered and is not the last
\* one the budget allows.
LastAnswered(i) == i = Len(responses) /\ i = requests /\ i <= MaxRetries

\* Attempt i was followed by a wait, the next request coming after it.
Retried(i) == Len(sleeps) >= i

\* The call ended at attempt i with the error of the server's response.
EndedWithApiError(i) ==
    /\ cPc = "thrown" /\ requests = i
    /\ cResult.kind = "apiError"
    /\ cResult.status = Status(i) /\ cResult.body = responses[i].body

\* A rate limit, any 5xx status, a network failure or a timeout.
TransientAny5xx(i) ==
    \/ responses[i].kind = "network"
    \/ Status(i) = 429
    \/ (Status(i) >= 500 /\ Status(i) <= 599)

\* A network failure or a timeout, or a status of RETRIABLE_STATUS_CODES.
TransientListed(i) ==
    \/ responses[i].kind = "network"
    \/ Status(i) \in {429, 500, 502, 503, 504}

\* C11 as stated: a failed request (with attempts left) is retried exactly
\* when the failure is a 429, any 5xx status, a network failure or a
\* timeout; every other failure ends the call after that request with an
\* error carrying the server's message.
C11_Any5xxRetried ==
    \A i \in 1..Len(responses) :
        (LastAnswered(i) /\ Failed(i)) =>
            /\ Retried(i) <=> TransientAny5xx(i)
            /\ ~TransientAny5xx(i) => EndedWithApiError(i)

\* C11, amended: a failed request (with attempts left) is retried exactly
\* when the failure is a network failure or a timeout, or its status is one
\* of 429, 500, 502, 503, 504; every other failure (a 4xx other than 429,
\* and a 5xx outside the list such as 501) ends the call after that request
\* with an error carrying the status and the server's message.
C11_ListedStatusesRetried ==
    \A i \in 1..Len(responses) :
        (LastAnswered(i) /\ Failed(i)) =>
            /\ Retried(i) <=> TransientListed(i)
            /\ ~TransientListed(i) => EndedWithApiError(i)

\* A rate-limited request was retried, and the retry was answered 501,
\* which ended the call at the second request.
C11_Witness ==
    /\ Len(responses) = 2 /\ requests = 2 /\ cPc = "thrown"
    /\ Status(1) = 429 /\ Len(sleeps) = 1
    /\ Status(2) = 501 /\ cResult.kind = "apiError" /\ cResult.status = 501

\* The retries are exhausted: all maxRetries + 1 attempts failed
\* transiently and the call has thrown.
RetriesExhausted ==
    /\ cPc = "thrown" /\ requests = MaxRetries + 1 /\ Len(responses) = requests
    /\ \A i \in 1..Len(responses) : TransientListed(i)

\* C12 as stated: whenever a call exhausts its retries, by retriable
\* statuses or by network failures, the terminal error names the number of
\* attempts made.
C12_AttemptsAlwaysNamed ==
    RetriesExhausted => cResult.attemptsNamed = requests

\* C12, amended: when a call exhausts its retries and the last attempt
\* failed at the network level (or timed out), the terminal error names the
\* number of attempts made, maxRetries + 1; when the last attempt was
\* answered with a retriable status, the terminal error carries that status
\* and the server's message and names no number of attempts.
C12_AttemptsNamedOnNetworkFailure ==
    RetriesExhausted =>
        IF responses[requests].kind = "network"
        THEN cResult.kind = "failedAfterAttempts" /\ cResult.attemptsNamed = requests
        ELSE /\ cResult.kind = "apiError" /\ cResult.attemptsNamed = 0
             /\ cResult.status = Status(requests)

\* Three attempts failed, the first by a retriable status and the last two
\* at the network level, and the error names 3 attempts.
C12_Witness ==
    /\ RetriesExhausted
    /\ responses[1].kind = "http" /\ Status(1) = 500
    /\ responses[2].kind = "network" /\ responses[3].kind = "network"
    /\ cResult.attemptsNamed = 3

\* The retry-after header of response i.
HintOf(i) == responses[i].hint

\* The wait the claim gives after response i, made at attempt i - 1: the
\* capped hint when the response carries a number of seconds, the
\* exponential backoff otherwise.
ClaimedWait(i) ==
    IF responses[i].kind = "http" /\ HintOf(i).kind = "num"
    THEN Ms(MinCap(HintOf(i).secs * 1000))
    ELSE Ms(BaseDelayMs * Pow2(i - 1))

\* C13: the wait after a retriable response with a retry-after hint of h
\* seconds is min(h * 1000, 30000) ms when attempts remain, and
\* 500 * 2^attempt ms otherwise; no wait exceeds 30000 ms and no wait is
\* negative.
C13_HintCappedNonNegative ==
    \A i \in 1..Len(sleeps) :
        /\ sleeps[i] = ClaimedWait(i)
        /\ ~sleeps[i].nan
        /\ sleeps[i].ms >= 0 /\ sleeps[i].ms <= MaxDelayMs

(***************************************************************************)
(* Placeholder guard: protectPlaceholders and restorePlaceholders          *)
(* (placeholders.ts 8-55).                                                 *)
(***************************************************************************)
Lower == {"a", "b", "c", "d", "e", "f", "g", "h", "i", "j", "k", "l", "m",
          "n", "o", "p", "q", "r", "s", "t", "u", "v", "w", "x", "y", "z"}
Upper == {"A", "B", "C", "D", "E", "F", "G", "H", "I", "J", "K", "L", "M",
          "N", "O", "P", "Q", "R", "S", "T", "U", "V", "W", "X", "Y", "Z"}
DigitChars == <<"0", "1", "2", "3", "4", "5", "6", "7", "8", "9">>

\* The regular expression classes \d, [a-zA-Z_], \w and [sdfu@].
IsDigit(c) == c \in Range(DigitChars)
IsIdStart(c) == c \in Lower \cup Upper \cup {"_"}
IsWord(c) == IsIdStart(c) \/ IsDigit(c)
IsConv(c) == c \in {"s", "d", "f", "u", "@"}

\* The character at position i, or "" past the end of the string.
CharAt(s, i) == IF i \in 1..Len(s) THEN s[i] ELSE ""

RECURSIVE WordRun(_, _)
\* The length of the longest run of \w characters from position i.
WordRun(s, i) == IF IsWord(CharAt(s, i)) THEN 1 + WordRun(s, i + 1) ELSE 0

RECURSIVE DigitRun(_, _)
\* The length of the longest run of \d characters from position i.
DigitRun(s, i) == IF IsDigit(CharAt(s, i)) THEN 1 + DigitRun(s, i + 1) ELSE 0

RECURSIVE NotParenRun(_, _)
\* The length of the longest run of [^)] characters from position i.
NotParenRun(s, i) ==
    IF i <= Len(s) /\ s[i] # ")" THEN 1 + NotParenRun(s, i + 1) ELSE 0

\* The number of patterns of PLACEHOLDER_PATTERNS (placeholders.ts 8-15).
NumPatterns == 6

\* The length of the match of pattern k at position i of s, 0 when there is
\* none. No pattern matches the empty string, and in each the greedy run is
\* followed by a character outside its class, so the match is unique.
MatchLen(k, s, i) ==
    CASE k = 1 ->   \* \{\{[a-zA-Z_]\w*\}\}
           IF CharAt(s, i) = "{" /\ CharAt(s, i + 1) = "{" /\ IsIdStart(CharAt(s, i + 2))
           THEN LET e == i + 3 + WordRun(s, i + 3)
                IN IF CharAt(s, e) = "}" /\ CharAt(s, e + 1) = "}" THEN e + 2 - i ELSE 0
           ELSE 0
      [] k = 2 ->   \* \{[a-zA-Z_]\w*\}
           IF CharAt(s, i) = "{" /\ IsIdStart(CharAt(s, i + 1))
           THEN LET e == i + 2 + WordRun(s, i + 2)
                IN IF CharAt(s, e) = "}" THEN e + 1 - i ELSE 0
           ELSE 0
      [] k = 3 ->   \* %\d+\$[sdfu@]
           IF CharAt(s, i) = "%" /\ DigitRun(s, i + 1) > 0
           THEN LET e == i + 1 + DigitRun(s, i + 1)
                IN IF CharAt(s, e) = "$" /\ IsConv(CharAt(s, e + 1)) THEN e + 2 - i ELSE 0
           ELSE 0
      [] k = 4 ->   \* %[sdfu@]
           IF CharAt(s, i) = "%" /\ IsConv(CharAt(s, i + 1)) THEN 2 ELSE 0
      [] k = 5 ->   \* \$\{[a-zA-Z_]\w*\}
           IF CharAt(s, i) = "$" /\ CharAt(s, i + 1) = "{" /\ IsIdStart(CharAt(s, i + 2))
           THEN LET e == i + 3 + WordRun(s, i + 3)
                IN IF CharAt(s, e) = "}" THEN e + 1 - i ELSE 0
           ELSE 0
      [] OTHER ->   \* \$t\([^)]+\)
           IF CharAt(s, i) = "$" /\ CharAt(s, i + 1) = "t" /\ CharAt(s, i + 2) = "("
              /\ NotParenRun(s, i + 3) > 0
           THEN LET e == i + 3 + NotParenRun(s, i + 3)
                IN IF CharAt(s, e) = ")" THEN e + 1 - i ELSE 0
           ELSE 0

RECURSIVE Decimal(_)
\* The decimal digits of a natural number.
Decimal(n) ==
    IF n < 10 THEN <<DigitChars[n + 1]>>
    ELSE Decimal(n \div 10) \o <<DigitChars[(n % 10) + 1]>>

\* `__PH${idx}__` (placeholders.ts 33).
Token(idx) == <<"_", "_", "P", "H">> \o Decimal(idx) \o <<"_", "_">>

RECURSIVE ReplaceAllFrom(_, _, _, _)
\* result.replace(pattern, callback) with a global pattern, from position i
\* (placeholders.ts 32-37): acc holds the text built so far, the map and idx.
ReplaceAllFrom(k, s, i, acc) ==
    IF i > Len(s) THEN acc
    ELSE LET n == MatchLen(k, s, i)
         IN IF n > 0
            THEN ReplaceAllFrom(k, s, i + n,
                    [text |-> acc.text \o Token(acc.idx),
                     placeholders |-> Append(acc.placeholders,
                        [token |-> Token(acc.idx), original |-> SubSeq(s, i, i + n - 1)]),
                     idx |-> acc.idx + 1])
            ELSE ReplaceAllFrom(k, s, i + 1, [acc EXCEPT !.text = Append(@, s[i])])

RECURSIVE ProtectFrom(_, _)
\* The loop over PLACEHOLDER_PATTERNS from pattern k (placeholders.ts 31-38).
ProtectFrom(k, st) ==
    IF k > NumPatterns THEN st
    ELSE ProtectFrom(k + 1,
            ReplaceAllFrom(k, st.text, 1,
                [text |-> <<>>, placeholders |-> st.placeholders, idx |-> st.idx]))

\* protectPlaceholders (placeholders.ts 26-41). The Map is the sequence of
\* its entries in insertion order; every token is set once.
protectPlaceholders(text) ==
    LET r == ProtectFrom(1, [text |-> text, placeholders |-> <<>>, idx |-> 0])
    IN [text |-> r.text, placeholders |-> r.placeholders]

RECURSIVE IndexOf(_, _, _)
\* The first position at or after i where t occurs in s, 0 when there is none.
IndexOf(s, t, i) ==
    IF i + Len(t) - 1 > Len(s) THEN 0
    ELSE IF SubSeq(s, i, i + Len(t) - 1) = t THEN i
    ELSE IndexOf(s, t, i + 1)

\* The backquote and the quote characters, by name.
BackQuote == "backquote"
Quote == "quote"

RECURSIVE GetSubstitution(_, _, _, _)
\* The expansion of a replacement string of String.prototype.replace with a
\* string pattern: $$ is $, $& the match, $ and a backquote the text before
\* it, $ and a quote the text after it; any other $ stands for itself.
GetSubstitution(template, matched, before, after) ==
    IF template = <<>> THEN <<>>
    ELSE IF Head(template) = "$" /\ Len(template) >= 2
              /\ template[2] \in {"$", "&", BackQuote, Quote}
         THEN (CASE template[2] = "$" -> <<"$">>
                 [] template[2] = "&" -> matched
                 [] template[2] = BackQuote -> before
                 [] OTHER -> after)
              \o GetSubstitution(SubSeq(template, 3, Len(template)), matched, before, after)
         ELSE <<Head(template)>> \o GetSubstitution(Tail(template), matched, before, after)

\* result.replace(token, original) with a string pattern: the first
\* occurrence only (placeholders.ts 52).
ReplaceFirst(s, token, original) ==
    LET i == IndexOf(s, token, 1)
    IN IF i = 0 THEN s
       ELSE LET before == SubSeq(s, 1, i - 1)
                after == SubSeq(s, i + Len(token), Len(s))
            IN before \o GetSubstitution(original, token, before, after) \o after

RECURSIVE RestoreFrom(_, _, _)
\* The loop over the entries of the Map, from entry j (placeholders.ts 51-53).
RestoreFrom(result, placeholders, j) ==
    IF j > Len(placeholders) THEN result
    ELSE RestoreFrom(ReplaceFirst(result, placeholders[j].token, placeholders[j].original),
                     placeholders, j + 1)

\* restorePlaceholders (placeholders.ts 46-55).
restorePlaceholders(text, placeholders) == RestoreFrom(text, placeholders, 1)

\* The number of pieces an input text is made of.
MaxPieces == 3

\* An instance of each of the six grammars, and a nested-looking one.
GrammarPieces ==
    { <<"{", "{", "a", "}", "}">>,          \* {{a}}
      <<"{", "n", "}">>,                    \* {n}
      <<"%", "1", "$", "s">>,               \* %1$s
      <<"%", "d">>,                         \* %d
      <<"$", "{", "v", "}">>,               \* ${v}
      <<"$", "t", "(", "k", ")">>,          \* $t(k)
      <<"$", "t", "(", "{", "n", "}", ")">> } \* $t({n}): a reference holding {n}

\* Plain text.
PlainPieces == { <<"x">>, <<" ">> }

\* Punctuation of the grammars on its own, and text that looks like a token.
LoosePieces ==
    { <<"{">>, <<"}">>, <<"$", "t", "(">>, <<")">>, <<"$", "&">>,
      <<"_", "_", "P", "H", "0", "_", "_">> }

Pieces == GrammarPieces \cup PlainPieces \cup LoosePieces

EmptyProtected == [text |-> <<>>, placeholders |-> <<>>]

PhInit ==
    /\ phPieces \in SeqsUpTo(Pieces, MaxPieces)
    /\ phInput = Flatten(phPieces)
    /\ phProtected = EmptyProtected
    /\ phText = <<>> /\ phOutput = <<>>
    /\ phPc = "start"

\* protectPlaceholders(e.value) (translate.ts 269-274).
PhProtect ==
    /\ phPc = "start"
    /\ phProtected' = protectPlaceholders(phInput)
    /\ phText' = protectPlaceholders(phInput).text
    /\ phPc' = "protected"
    /\ UNCHANGED <<phPieces, phInput, phOutput>>
    /\ UNCHANGED notPhVars

\* The largest number of pieces of a translated text.
MaxTranslatedPieces == 3

\* The tokens recorded in a Map of placeholders.
TokensOf(placeholders) == {placeholders[i].token : i \in 1..Len(placeholders)}

\* The texts the service may return for a protected text: the recorded
\* tokens and plain words in any order, a token kept, dropped or repeated.
TranslatedTexts(protected) ==
    {Flatten(ps) : ps \in SeqsUpTo(TokensOf(protected.placeholders) \cup {<<"x">>},
                                   MaxTranslatedPieces)}

\* The service translates the protected text: result.text
\* (translate.ts 284-294).
PhTranslate ==
    /\ phPc = "protected"
    /\ phText' \in TranslatedTexts(phProtected)
    /\ phPc' = "translated"
    /\ UNCHANGED <<phPieces, phInput, phProtected, phOutput>>
    /\ UNCHANGED notPhVars

\* restorePlaceholders(text, placeholders) (translate.ts 294), on the
\* protected text itself or on its translation.
PhRestore ==
    /\ phPc \in {"protected", "translated"}
    /\ phOutput' = restorePlaceholders(phText, phProtected.placeholders)
    /\ phPc' = "restored"
    /\ UNCHANGED <<phPieces, phInput, phProtected, phText>>
    /\ UNCHANGED notPhVars

PhNext == PhProtect \/ PhTranslate \/ PhRestore

\* Only the placeholder guard runs, on one text.
PhSpecInit == PhInit /\ BatchIdle /\ ClientIdle /\ DocIdle /\ PipeIdle /\ MdIdle /\ RunIdle /\ FormatIdle

PhSpec == PhSpecInit /\ [][PhNext]_vars

\* A text that is, as a whole, one match of one of the six patterns.
IsPlaceholder(p) == \E k \in 1..NumPatterns : MatchLen(k, p, 1) = Len(p) /\ Len(p) > 0

\* An input made of placeholders of the six grammars and plain text only.
OnlyGrammars == \A i \in 1..Len(phPieces) : IsPlaceholder(phPieces[i]) \/ phPieces[i] \in PlainPieces

\* C1: for every input x made of any combination of the six placeholder
\* grammars (adjacent, nested-looking, repeated, or none),
\* restorePlaceholders(protectPlaceholders(x).text,
\* protectPlaceholders(x).placeholders) equals x.
C1_RoundTrip ==
    (phPc = "restored" /\ phText = phProtected.text /\ OnlyGrammars) => phOutput = phInput

\* The Map of placeholders is sound: no token occurs in the input text or
\* in a recorded original, so a token in a translated text stands for its
\* original only.
SoundTokens ==
    \A t \in TokensOf(phProtected.placeholders) :
        /\ IndexOf(phInput, t, 1) = 0
        /\ \A i \in 1..Len(phProtected.placeholders) :
              IndexOf(phProtected.placeholders[i].original, t, 1) = 0

\* C16: restorePlaceholders replaces every occurrence of every recorded
\* token in the translated text by its original, also when the translation
\* reordered or repeated tokens: after restore no recorded token is left in
\* the text. Stated for the inputs made of placeholders of the six grammars
\* and plain text whose Map of placeholders is sound.
C16_NoTokenLeft ==
    (phPc = "restored" /\ OnlyGrammars /\ SoundTokens) =>
        \A t \in TokensOf(phProtected.placeholders) : IndexOf(phOutput, t, 1) = 0

\* The tokens of a Map of placeholders, in insertion order, are pairwise
\* distinct.
DistinctTokens(placeholders) ==
    \A i, j \in 1..Len(placeholders) :
        i # j => placeholders[i].token # placeholders[j].token

\* C22 (first half): the tokens protectPlaceholders inserts in one call are
\* pairwise distinct.
C22_TokensDistinct ==
    phPc # "start" => DistinctTokens(phProtected.placeholders)

\* C22: for every input text, the tokens protectPlaceholders inserts are
\* pairwise distinct and none of them occurs in the original text.
C22_TokensFresh ==
    phPc # "start" =>
        /\ DistinctTokens(phProtected.placeholders)
        /\ \A t \in TokensOf(phProtected.placeholders) : IndexOf(phInput, t, 1) = 0

(***************************************************************************)
(* JSON codec, diff and merge: flattenJson, unflattenJson, computeDiff and *)
(* mergeTranslations (json.ts 19-110).                                     *)
(*                                                                         *)
(* An object is the sequence of its members [k, v] in the order of         *)
(* Object.entries (the insertion order: no key of the model is an array    *)
(* index). A value is a string, an object, or any other JSON value.        *)
(***************************************************************************)
Str(v) == [t |-> "str", s |-> v, o |-> <<>>]
Obj(members) == [t |-> "obj", s |-> <<>>, o |-> members]
\* A number, a boolean, null or an array.
Other == [t |-> "other", s |-> <<>>, o |-> <<>>]

Dot == "."

RECURSIVE flattenJson(_, _)
\* flattenJson(obj, prefix) (json.ts 19-37); the empty prefix is falsy.
flattenJson(obj, prefix) ==
    IF obj = <<>> THEN <<>>
    ELSE LET k == Head(obj).k
             v == Head(obj).v
             fullKey == IF prefix # <<>> THEN prefix \o <<Dot>> \o k ELSE k
         IN (IF v.t = "str" THEN <<[key |-> fullKey, value |-> v.s]>>
             ELSE IF v.t = "obj" THEN flattenJson(v.o, fullKey)
             ELSE <<>>)
            \o flattenJson(Tail(obj), prefix)

RECURSIVE Split(_)
\* key.split(".") (json.ts 47).
Split(key) ==
    IF \A i \in 1..Len(key) : key[i] # Dot THEN <<key>>
    ELSE LET i == CHOOSE j \in 1..Len(key) :
                      key[j] = Dot /\ \A h \in 1..(j - 1) : key[h] # Dot
         IN <<SubSeq(key, 1, i - 1)>> \o Split(SubSeq(key, i + 1, Len(key)))

\* part in current (json.ts 52).
HasKey(obj, k) == \E i \in 1..Len(obj) : obj[i].k = k

\* current[part].
GetKey(obj, k) == obj[CHOOSE i \in 1..Len(obj) : obj[i].k = k].v

\* current[part] = v: an existing key keeps its place, a new one comes last.
SetKey(obj, k, v) ==
    IF HasKey(obj, k)
    THEN [i \in 1..Len(obj) |-> IF obj[i].k = k THEN [k |-> k, v |-> v] ELSE obj[i]]
    ELSE Append(obj, [k |-> k, v |-> v])

RECURSIVE SetPath(_, _, _)
\* The walk down the parts of one key and the assignment of its value
\* (json.ts 50-58): a part that is missing, or is not an object, becomes {}.
SetPath(obj, parts, value) ==
    IF Len(parts) = 1 THEN SetKey(obj, parts[1], Str(value))
    ELSE LET part == parts[1]
             child == IF HasKey(obj, part) /\ GetKey(obj, part).t = "obj"
                      THEN GetKey(obj, part).o
                      ELSE <<>>
         IN SetKey(obj, part, Obj(SetPath(child, Tail(parts), value)))

RECURSIVE UnflattenFrom(_, _)
UnflattenFrom(root, entries) ==
    IF entries = <<>> THEN root
    ELSE UnflattenFrom(SetPath(root, Split(Head(entries).key), Head(entries).value),
                       Tail(entries))

\* unflattenJson(entries) (json.ts 43-62).
unflattenJson(entries) == UnflattenFrom(<<>>, entries)

\* A Map<string, string> is the sequence of its entries [key, value] in
\* insertion order. has, get and set:
MapHas(m, k) == \E i \in 1..Len(m) : m[i].key = k
MapGet(m, k) == m[CHOOSE i \in 1..Len(m) : m[i].key = k].value
MapSet(m, k, v) ==
    IF MapHas(m, k)
    THEN [i \in 1..Len(m) |-> IF m[i].key = k THEN [key |-> k, value |-> v] ELSE m[i]]
    ELSE Append(m, [key |-> k, value |-> v])

RECURSIVE MapFrom(_, _)
MapFrom(m, entries) ==
    IF entries = <<>> THEN m
    ELSE MapFrom(MapSet(m, Head(entries).key, Head(entries).value), Tail(entries))

\* new Map(flattenJson(existingTarget).map((e) => [e.key, e.value]))
\* (json.ts 80-82, 100-102).
ExistingFlat(target) ==
    IF target.present THEN MapFrom(<<>>, flattenJson(target.doc, <<>>)) ELSE <<>>

\* A diff that also returns the entries whose target value differs from the
\* source value.
computeDiff_ByValue(entries, target) ==
    IF ~target.present THEN entries
    ELSE SelectSeq(entries,
            LAMBDA e : \/ ~MapHas(ExistingFlat(target), e.key)
                       \/ MapGet(ExistingFlat(target), e.key) # e.value)

\* computeDiff(sourceEntries, existingTarget) (json.ts 71-88).
computeDiff(entries, target) ==
    IF ~target.present THEN entries
    ELSE SelectSeq(entries, LAMBDA e : ~MapHas(ExistingFlat(target), e.key))

\* translated.get(key) ?? existingFlat.get(key) ?? entry.value (json.ts 106).
MergedValue(entry, trans, existingFlat) ==
    IF MapHas(trans, entry.key) THEN MapGet(trans, entry.key)
    ELSE IF MapHas(existingFlat, entry.key) THEN MapGet(existingFlat, entry.key)
    ELSE entry.value

\* mergeTranslations(sourceEntries, translated, existingTarget)
\* (json.ts 95-110).
mergeTranslations(entries, trans, target) ==
    unflattenJson([i \in 1..Len(entries) |->
                      [key |-> entries[i].key,
                       value |-> MergedValue(entries[i], trans, ExistingFlat(target))]])

\* The documents explored: at most n members, with distinct keys.
DocsOver(keys, vals, n) ==
    UNION {{d \in [1..c -> [k : keys, v : vals]] :
              \A i, j \in 1..c : i # j => d[i].k # d[j].k} : c \in 0..n}

\* The keys of the top level: plain ones, and one that holds a dot.
TopKeys == {<<"a">>, <<"b">>, <<"a", Dot, "b">>}
\* The nested objects: empty, or one string under b or under c.
NestedKeys == {<<"b">>, <<"c">>}

\* The strings of a source file, of a target file, and of a translation.
SourceText == <<"H", "i">>
TargetText == <<"Y", "o">>
TranslatedText == <<"T", "r">>

NestedObjs(text) == {Obj(d) : d \in DocsOver(NestedKeys, {Str(text)}, 1)}

\* The largest number of members of the top level of a source and of a target.
MaxSrcKeys == 2
MaxTgtKeys == 2

SourceDocs == DocsOver(TopKeys, {Str(SourceText), Other} \cup NestedObjs(SourceText), MaxSrcKeys)
TargetDocs == DocsOver(TopKeys, {Str(TargetText), Other} \cup NestedObjs(TargetText), MaxTgtKeys)
Targets == {NullTarget} \cup {[present |-> TRUE, doc |-> d] : d \in TargetDocs}

\* The keys of a sequence of entries.
KeysOf(entries) == {entries[i].key : i \in 1..Len(entries)}

\* The source was read and flattened, and the existing target loaded
\* (translate.ts 92-108).
DiffInit ==
    /\ sourceJson \in SourceDocs
    /\ sourceEntries = flattenJson(sourceJson, <<>>)
    /\ existingTarget \in Targets
    /\ translated = <<>> /\ toTranslate = <<>> /\ merged = <<>>
    /\ dPc = "loaded"

\* const toTranslate = computeDiff(sourceEntries, existingTarget)
\* (translate.ts 110).
DiffCompute ==
    /\ dPc = "loaded"
    /\ toTranslate' = computeDiff(sourceEntries, existingTarget)
    /\ dPc' = "diffed"
    /\ UNCHANGED <<sourceJson, sourceEntries, existingTarget, translated, merged>>
    /\ UNCHANGED notDocVars

DiffNext == DiffCompute

\* Only computeDiff runs.
DiffSpecInit == DiffInit /\ BatchIdle /\ ClientIdle /\ PhIdle /\ PipeIdle /\ MdIdle /\ RunIdle /\ FormatIdle

DiffSpec == DiffSpecInit /\ [][DiffNext]_vars

MaxMergeSrcKeys == 3
MaxMergeTgtKeys == 1
MergeSourceDocs ==
    DocsOver(TopKeys, {Str(SourceText), Other} \cup NestedObjs(SourceText), MaxMergeSrcKeys)
MergeTargets ==
    {NullTarget} \cup
    {[present |-> TRUE, doc |-> d] :
        d \in DocsOver(TopKeys, {Str(TargetText), Other} \cup NestedObjs(TargetText),
                       MaxMergeTgtKeys)}

\* The keys of a sequence of entries, in order.
KeySeq(entries) == [i \in 1..Len(entries) |-> entries[i].key]

MergeInit ==
    /\ sourceJson \in MergeSourceDocs
    /\ sourceEntries = flattenJson(sourceJson, <<>>)
    /\ existingTarget \in MergeTargets
    /\ translated = <<>> /\ toTranslate = <<>> /\ merged = <<>>
    /\ dPc = "loaded"

\* const merged = mergeTranslations(sourceEntries, translated, existingTarget)
\* (translate.ts 135), for a map that translates any of the source keys.
MergeCompute ==
    /\ dPc = "loaded"
    /\ \E K \in SUBSET KeysOf(sourceEntries) :
          LET t == MapFrom(<<>>, SelectSeq([i \in 1..Len(sourceEntries) |->
                                  [key |-> sourceEntries[i].key, value |-> TranslatedText]],
                                LAMBDA e : e.key \in K))
          IN /\ translated' = t
             /\ merged' = mergeTranslations(sourceEntries, t, existingTarget)
    /\ dPc' = "merged"
    /\ UNCHANGED <<sourceJson, sourceEntries, existingTarget, toTranslate>>
    /\ UNCHANGED notDocVars

MergeNext == MergeCompute

\* Only mergeTranslations runs.
MergeSpecInit == MergeInit /\ BatchIdle /\ ClientIdle /\ PhIdle /\ PipeIdle /\ MdIdle /\ RunIdle /\ FormatIdle

MergeSpec == MergeSpecInit /\ [][MergeNext]_vars

\* The value the claim gives a source entry: the translation if the map has
\* the key, else the existing target's value if it has the key, else the
\* source value.
ClaimedValue(e) ==
    LET tflat == flattenJson(existingTarget.doc, <<>>)
    IN IF e.key \in KeysOf(translated) THEN TranslatedText
       ELSE IF existingTarget.present /\ e.key \in KeysOf(tflat) THEN TargetText
       ELSE e.value

\* C4: the merged document holds, for every source key, the translated value
\* if the translated map has the key, else the existing target's value if
\* present, else the source value.
C4_MergedValues ==
    dPc = "merged" =>
        \A i \in 1..Len(sourceEntries) :
            \E e \in Range(flattenJson(merged, <<>>)) :
                e.key = sourceEntries[i].key /\ e.value = ClaimedValue(sourceEntries[i])

\* p is a dotted prefix of q.
IsDottedPrefix(p, q) == Len(p) < Len(q) /\ SubSeq(q, 1, Len(p) + 1) = p \o <<Dot>>

\* The keys of the entries are distinct and none is a dotted prefix of
\* another: no entry overwrites another when the document is built.
CleanKeys(entries) ==
    \A i, j \in 1..Len(entries) :
        /\ i # j => entries[i].key # entries[j].key
        /\ ~IsDottedPrefix(entries[i].key, entries[j].key)

\* C5: the key order of the merged document is the order of sourceEntries,
\* whatever the existing target and its key order. Stated for the sources
\* in which no entry overwrites another, where every source key is in the
\* merged document.
C5_SourceKeyOrder ==
    (dPc = "merged" /\ CleanKeys(sourceEntries)) =>
        KeySeq(flattenJson(merged, <<>>)) = KeySeq(sourceEntries)

RECURSIVE JoinPath(_)
\* The keys of a path from the root, joined with dots.
JoinPath(path) ==
    IF Len(path) = 1 THEN path[1]
    ELSE JoinPath(SubSeq(path, 1, Len(path) - 1)) \o <<Dot>> \o path[Len(path)]

RECURSIVE StringLeavesInOrder(_, _)
\* The string leaves of a document in depth-first order of the object keys,
\* each with its path from the root.
StringLeavesInOrder(obj, path) ==
    IF obj = <<>> THEN <<>>
    ELSE (IF Head(obj).v.t = "obj"
          THEN StringLeavesInOrder(Head(obj).v.o, Append(path, Head(obj).k))
          ELSE IF Head(obj).v.t = "str"
               THEN << [path |-> Append(path, Head(obj).k), s |-> Head(obj).v.s] >>
               ELSE <<>>)
         \o StringLeavesInOrder(Tail(obj), path)

\* C23 (second half): the entries of flattenJson are the string leaves of
\* the document, and only those, in depth-first object-key order.
C23_StringLeavesInOrder ==
    LET sl == StringLeavesInOrder(sourceJson, <<>>)
    IN sourceEntries = [i \in 1..Len(sl) |-> [key |-> JoinPath(sl[i].path), value |-> sl[i].s]]

\* C23: for every document the keys of the entries of flattenJson are
\* pairwise distinct, and the entries are the string leaves, and only
\* those, in depth-first object-key order.
C23_DistinctKeysInOrder ==
    /\ \A i, j \in 1..Len(sourceEntries) :
          i # j => sourceEntries[i].key # sourceEntries[j].key
    /\ C23_StringLeavesInOrder

(***************************************************************************)
(* flattenJson followed by unflattenJson on a document whose leaves are    *)
(* all strings (json.ts 19-62).                                            *)
(***************************************************************************)
\* The largest number of members of the top level of such a document.
MaxCodecKeys == 2

\* Documents whose leaves are all strings: strings at the top level and
\* nested objects, with plain and dotted keys.
StringLeafDocs ==
    DocsOver(TopKeys, {Str(SourceText), Str(TargetText)} \cup NestedObjs(SourceText),
             MaxCodecKeys)

\* A document d.
CodecInit ==
    /\ sourceJson \in StringLeafDocs
    /\ sourceEntries = <<>>
    /\ existingTarget = NullTarget
    /\ translated = <<>> /\ toTranslate = <<>> /\ merged = <<>>
    /\ dPc = "doc"

\* flattenJson(d) (json.ts 19-37).
CodecFlatten ==
    /\ dPc = "doc"
    /\ sourceEntries' = flattenJson(sourceJson, <<>>)
    /\ dPc' = "flat"
    /\ UNCHANGED <<sourceJson, existingTarget, translated, toTranslate, merged>>
    /\ UNCHANGED notDocVars

\* unflattenJson(entries) (json.ts 43-62).
CodecUnflatten ==
    /\ dPc = "flat"
    /\ merged' = unflattenJson(sourceEntries)
    /\ dPc' = "round"
    /\ UNCHANGED <<sourceJson, sourceEntries, existingTarget, translated, toTranslate>>
    /\ UNCHANGED notDocVars

CodecNext == CodecFlatten \/ CodecUnflatten

\* Only the codec runs.
CodecSpecInit == CodecInit /\ BatchIdle /\ ClientIdle /\ PhIdle /\ PipeIdle /\ MdIdle /\ RunIdle /\ FormatIdle

CodecSpec == CodecSpecInit /\ [][CodecNext]_vars

RECURSIVE NoEmptyObject(_)
\* No nested object of the document is empty: every branch ends in a leaf.
NoEmptyObject(d) ==
    \A i \in 1..Len(d) :
        d[i].v.t = "obj" => (d[i].v.o # <<>> /\ NoEmptyObject(d[i].v.o))

\* C14: for every document d whose leaves are all strings,
\* unflattenJson(flattenJson(d)) equals d. Stated for the documents in which
\* every branch ends in a string leaf (an empty nested object has no leaf
\* for flattenJson to return).
C14_FlattenRoundTrip ==
    (dPc = "round" /\ NoEmptyObject(sourceJson)) => merged = sourceJson

(***************************************************************************)
(* Markdown: splitMarkdown and assembleMarkdown (markdown.ts 15-47).       *)
(***************************************************************************)
\* The line feed, the dash and a letter.
NL == "\n"
Dash == "-"
MdChars == {Dash, NL, "x"}

\* The largest length of a content.
MaxMdLen == 8

\* White space and line terminators, as trimStart sees them.
IsWhiteSpace(c) == c \in {" ", "\t", NL, "\r"}

RECURSIVE trimStart(_)
\* content.trimStart() (markdown.ts 16).
trimStart(s) ==
    IF s # <<>> /\ IsWhiteSpace(Head(s)) THEN trimStart(Tail(s)) ELSE s

\* s.startsWith(p) (markdown.ts 18).
StartsWith(s, p) == Len(s) >= Len(p) /\ SubSeq(s, 1, Len(p)) = p

\* The opening delimiter, and the closing one with its line feed.
Delimiter == <<Dash, Dash, Dash>>
ClosingDelimiter == <<NL, Dash, Dash, Dash>>

\* { frontmatter, body } with a frontmatter string.
WithFrontmatter(fm, body) == [frontmatter |-> [null |-> FALSE, text |-> fm], body |-> body]
\* { frontmatter: null, body }
WithoutFrontmatter(body) == [frontmatter |-> [null |-> TRUE, text |-> <<>>], body |-> body]

\* splitMarkdown(content) (markdown.ts 15-33). Positions are 1-based here:
\* indexOf(..., 3) searches from the 4th character and -1 is 0.
splitMarkdown(content) ==
    LET trimmed == trimStart(content)
        endIndex == IndexOf(trimmed, ClosingDelimiter, 4)
    IN IF ~StartsWith(trimmed, Delimiter) THEN WithoutFrontmatter(content)
       ELSE IF endIndex = 0 THEN WithoutFrontmatter(content)
       ELSE WithFrontmatter(SubSeq(trimmed, 1, endIndex + 3),
                            SubSeq(trimmed, endIndex + 4, Len(trimmed)))

\* A reassembly that leaves the frontmatter out.
assembleMarkdown_BodyOnly(frontmatter, translatedBody) == translatedBody

\* assembleMarkdown(frontmatter, translatedBody) (markdown.ts 38-47): null
\* and the empty string are falsy.
assembleMarkdown(frontmatter, translatedBody) ==
    IF frontmatter.null \/ frontmatter.text = <<>> THEN translatedBody
    ELSE frontmatter.text \o translatedBody

\* A content string x.
MdInit ==
    /\ mdContent \in SeqsUpTo(MdChars, MaxMdLen)
    /\ mdFile = NoMarkdownFile
    /\ mdOut = <<>>
    /\ mdPc = "content"

\* const { frontmatter, body } = splitMarkdown(content)
MdSplit ==
    /\ mdPc = "content"
    /\ mdFile' = splitMarkdown(mdContent)
    /\ mdPc' = "split"
    /\ UNCHANGED <<mdContent, mdOut>>
    /\ UNCHANGED notMdVars

\* assembleMarkdown(frontmatter, body)
MdAssemble ==
    /\ mdPc = "split"
    /\ mdOut' = assembleMarkdown(mdFile.frontmatter, mdFile.body)
    /\ mdPc' = "assembled"
    /\ UNCHANGED <<mdContent, mdFile>>
    /\ UNCHANGED notMdVars

MdNext == MdSplit \/ MdAssemble

\* Only the splitter runs.
MdSpecInit == MdInit /\ BatchIdle /\ ClientIdle /\ PhIdle /\ DocIdle /\ PipeIdle /\ RunIdle /\ FormatIdle

MdSpec == MdSpecInit /\ [][MdNext]_vars

\* The content begins with white space.
LeadingWhiteSpace(x) == x # <<>> /\ IsWhiteSpace(Head(x))

\* C15 as stated: for every content x, with or without frontmatter and with
\* or without leading white space, assembling the two parts of
\* splitMarkdown(x) gives x byte for byte.
C15_RoundTripAlways ==
    mdPc = "assembled" => mdOut = mdContent

\* C15, amended: assembling the two parts of splitMarkdown(x) gives x byte
\* for byte when x has no frontmatter or does not begin with white space;
\* when x has a frontmatter after leading white space the result is x
\* without that leading white space.
C15_RoundTripUpToLeadingSpace ==
    mdPc = "assembled" =>
        /\ (mdFile.frontmatter.null \/ ~LeadingWhiteSpace(mdContent)) => mdOut = mdContent
        /\ ~mdFile.frontmatter.null => mdOut = trimStart(mdContent)

\* A frontmatter and a body, reassembled to the content.
C15_Witness ==
    /\ mdPc = "assembled"
    /\ mdContent = <<Dash, Dash, Dash, NL, Dash, Dash, Dash, "x">>
    /\ mdFile = WithFrontmatter(<<Dash, Dash, Dash, NL, Dash, Dash, Dash>>, <<"x">>)
    /\ mdOut = mdContent

(***************************************************************************)
(* One run of translateJsonFile on one (source file, target language)      *)
(* pair (translate.ts 84-149), with batchTranslateWithPlaceholders         *)
(* (translate.ts 262-301). The client is seen from outside: a call to      *)
(* client.translate returns an array of translations or throws (its        *)
(* retries are ClientSpec). A file that holds JSON is the document that    *)
(* JSON.parse gives: JSON.stringify followed by JSON.parse returns the     *)
(* same members in the same order for documents of strings and objects.    *)
(* translateYamlFile (translate.ts 151-216) runs the same steps with the   *)
(* YAML parser and serializer; yaml.load and yaml.dump are to a document   *)
(* what JSON.parse and JSON.stringify are.                                 *)
(***************************************************************************)

\* A string with one placeholder.
PlaceholderText == <<"{", "n", "}">>

\* The largest number of members of the top level of a source and of an
\* existing target of a run.
MaxPipeSrcKeys == 2
MaxPipeTgtKeys == 1

PipeSourceDocs ==
    DocsOver(TopKeys, {Str(SourceText), Str(PlaceholderText), Other, Obj(<<>>),
                       Obj(<<[k |-> <<"b">>, v |-> Str(SourceText)]>>)},
             MaxPipeSrcKeys)
PipeTargetDocs ==
    DocsOver(TopKeys, {Str(TargetText), Obj(<<[k |-> <<"b">>, v |-> Str(TargetText)]>>)},
             MaxPipeTgtKeys)

\* The file at the output path: missing, not parseable, or a document.
MalformedFile == [state |-> "malformed", doc |-> <<>>]
DocFile(d) == [state |-> "doc", doc |-> d]
PipeTargetFiles == {AbsentFile, MalformedFile} \cup {DocFile(d) : d \in PipeTargetDocs}

\* try { readFile; JSON.parse } catch { } (translate.ts 102-108): a missing
\* file and a file that does not parse both leave null.
LoadTarget(file) ==
    IF file.state = "doc" THEN [present |-> TRUE, doc |-> file.doc] ELSE NullTarget

\* A count of the strings instead of their characters.
countCharacters_Strings(ss) == Len(ss)

\* countCharacters(strings) (utils.ts 243-245).
countCharacters(ss) == SumLen(ss)

\* entries.map((e) => e.value)
ValuesOf(entries) == [i \in 1..Len(entries) |-> entries[i].value]

\* The limits that batchTranslateWithPlaceholders passes to batchStrings:
\* 50 strings and 10_000 characters in the source (translate.ts 275),
\* scaled to the documents explored so that a run has several batches.
TranslateMaxItems == 2
TranslateMaxChars == 4

\* protectedEntries (translate.ts 269-272).
ProtectEntries(entries) ==
    [i \in 1..Len(entries) |->
        [key |-> entries[i].key, value |-> entries[i].value,
         protected |-> protectPlaceholders(entries[i].value)]]

\* protectedEntries.map((e) => e.protected.text) (translate.ts 274).
ProtectedTexts(pe) == [i \in 1..Len(pe) |-> pe[i].protected.text]

\* The texts the service may return for one string.
ServiceTexts == {TranslatedText, Token(0)}

\* The arrays the service may return for a batch: fewer, as many or more
\* translations than strings sent.
ServiceResults(batch) == SeqsUpTo(ServiceTexts, Len(batch) + 1)

\* Every result is attributed to the first entry.
EntryOfResult_First(pe, entryIndex) == pe[1]

\* const entry = protectedEntries[entryIndex] (translate.ts 292).
EntryOfResult(pe, entryIndex) == pe[entryIndex + 1]

RECURSIVE ApplyResults(_, _, _)
\* for (const result of resultArray) { ... } (translate.ts 291-297).
\* protectedEntries[entryIndex] is undefined past the last entry, and
\* reading entry.protected then throws.
ApplyResults(st, results, pe) ==
    IF results = <<>> \/ st.threw THEN st
    ELSE IF st.entryIndex >= Len(pe)
         THEN [st EXCEPT !.threw = TRUE]
         ELSE LET entry == EntryOfResult(pe, st.entryIndex)
                  restored == restorePlaceholders(Head(results), entry.protected.placeholders)
              IN ApplyResults([translated |-> MapSet(st.translated, entry.key, restored),
                               entryIndex |-> st.entryIndex + 1,
                               threw |-> FALSE],
                              Tail(results), pe)

\* A test of the flag that never takes the dry-run branch.
IsDryRun_Ignored(dryRun) == FALSE

\* if (dryRun) (translate.ts 121, 188, 236).
IsDryRun(dryRun) == dryRun

\* The formats translated by keys: translateJsonFile and translateYamlFile
\* (translate.ts 68-74).
KeyedFormats == {"json", "yaml"}

\* What is written for a merged document: JSON.stringify(merged) for JSON
\* (translate.ts 141), serializeYaml(flattenJson(merged)) for YAML, which
\* unflattens the entries again (translate.ts 205-206, yaml.ts 23-26).
WrittenDoc(format, doc) ==
    IF format = "yaml" THEN unflattenJson(flattenJson(doc, <<>>)) ELSE doc

\* The source file, the file at the output path and the dry-run input.
PipeInit ==
    /\ pSource \in PipeSourceDocs
    /\ pTargetFile \in PipeTargetFiles
    /\ pTargetBefore = pTargetFile
    /\ pDryRun \in BOOLEAN
    /\ pRunNo = 1
    /\ pFormat = "json" /\ pContent = <<>>
    /\ pPc = "start"
    /\ PipeLocalsIdle
    /\ pRequests = <<>> /\ pReplies = <<>> /\ pSubmitted = 0 /\ pWrites = 0 /\ pResult = NoResult

\* No translatable string in the source: return (translate.ts 92-99).
PipeSkipEmpty ==
    /\ pPc = "start"
    /\ pFormat \in KeyedFormats
    /\ flattenJson(pSource, <<>>) = <<>>
    /\ pPc' = "returned"
    /\ pResult' = NoResult
    /\ UNCHANGED <<pipeFiles, pipeLocals, pRequests, pReplies, pSubmitted, pWrites>>
    /\ UNCHANGED notPipeVars

\* Every source key is in the existing target: return (translate.ts 92-115).
PipeSkipUpToDate ==
    /\ pPc = "start"
    /\ pFormat \in KeyedFormats
    /\ LET entries == flattenJson(pSource, <<>>)
           existing == LoadTarget(pTargetFile)
       IN /\ entries # <<>>
          /\ computeDiff(entries, existing) = <<>>
          /\ pEntries' = entries
          /\ pExisting' = existing
    /\ pPc' = "returned"
    /\ pResult' = NoResult
    /\ UNCHANGED <<pipeFiles, pToTranslate, pProtected, pBatches, pI, pEntryIndex,
                   pTranslated, pMd, pRequests, pReplies, pSubmitted, pWrites>>
    /\ UNCHANGED notPipeVars

\* Dry run: report the characters and return (translate.ts 92-124).
PipeDryRun ==
    /\ pPc = "start"
    /\ pFormat \in KeyedFormats
    /\ IsDryRun(pDryRun)
    /\ LET entries == flattenJson(pSource, <<>>)
           existing == LoadTarget(pTargetFile)
           diff == computeDiff(entries, existing)
       IN /\ entries # <<>>
          /\ diff # <<>>
          /\ pEntries' = entries
          /\ pExisting' = existing
          /\ pToTranslate' = diff
          /\ pResult' = [files |-> 0, chars |-> countCharacters(ValuesOf(diff))]
    /\ pPc' = "returned"
    /\ UNCHANGED <<pipeFiles, pProtected, pBatches, pI, pEntryIndex, pTranslated,
                   pMd, pRequests, pReplies, pSubmitted, pWrites>>
    /\ UNCHANGED notPipeVars

\* There is something to translate: protect the values and cut them into
\* batches (translate.ts 92-131, 269-279).
PipeBegin ==
    /\ pPc = "start"
    /\ pFormat \in KeyedFormats
    /\ ~IsDryRun(pDryRun)
    /\ LET entries == flattenJson(pSource, <<>>)
           existing == LoadTarget(pTargetFile)
           diff == computeDiff(entries, existing)
           pe == ProtectEntries(diff)
       IN /\ entries # <<>>
          /\ diff # <<>>
          /\ pEntries' = entries
          /\ pExisting' = existing
          /\ pToTranslate' = diff
          /\ pProtected' = pe
          /\ pBatches' = batchStrings(ProtectedTexts(pe), TranslateMaxItems, TranslateMaxChars)
    /\ pTranslated' = <<>>
    /\ pEntryIndex' = 0
    /\ pI' = 0
    /\ pPc' = "loop"
    /\ pMd' = NoMarkdownFile
    /\ UNCHANGED <<pipeFiles, pRequests, pReplies, pSubmitted, pWrites, pResult>>
    /\ UNCHANGED notPipeVars

\* The number of strings in the batches before batch i.
StringsBefore(bs, i) == Len(Flatten(SubSeq(bs, 1, i - 1)))

\* The source characters of the entries whose protected text is in batch i:
\* the lengths of their values before protection.
SourceCharsOfBatch(pe, bs, i) ==
    SumLen([j \in 1..Len(bs[i]) |-> pe[StringsBefore(bs, i) + j].value])

\* The loop issues a call without waiting for the call before it.
LoopMayProceed_NoAwait(pc) == pc \in {"loop", "await"}

\* const results = await client.translate(...) (translate.ts 284): the loop
\* body goes on when the call has returned.
LoopMayProceed(pc) == pc = "loop"

\* client.translate(batch, ...) is called for batch i (translate.ts 280-287).
PipeSend ==
    /\ LoopMayProceed(pPc)
    /\ pI < Len(pBatches)
    /\ pRequests' = Append(pRequests, pBatches[pI + 1])
    /\ pSubmitted' = pSubmitted + SourceCharsOfBatch(pProtected, pBatches, pI + 1)
    /\ pPc' = "await"
    /\ UNCHANGED <<pipeFiles, pipeLocals, pReplies, pWrites, pResult>>
    /\ UNCHANGED notPipeVars

\* The call returns: restore the placeholders of each result and store it
\* under the key of the next entry (translate.ts 284-298).
PipeReceive ==
    /\ pPc = "await"
    /\ \E results \in ServiceResults(pBatches[pI + 1]) :
         LET st == ApplyResults([translated |-> pTranslated, entryIndex |-> pEntryIndex,
                                 threw |-> FALSE],
                                results, pProtected)
         IN /\ pTranslated' = st.translated
            /\ pEntryIndex' = st.entryIndex
            /\ pPc' = IF st.threw THEN "threw" ELSE "loop"
            /\ pI' = IF st.threw THEN pI ELSE pI + 1
            /\ pReplies' = Append(pReplies, results)
    /\ UNCHANGED <<pipeFiles, pEntries, pExisting, pToTranslate, pProtected, pBatches,
                   pMd, pRequests, pSubmitted, pWrites, pResult>>
    /\ UNCHANGED notPipeVars

\* The call throws: the error leaves translateJsonFile (translate.ts 284).
PipeClientError ==
    /\ pPc = "await"
    /\ pPc' = "threw"
    /\ UNCHANGED <<pipeFiles, pipeLocals, pRequests, pReplies, pSubmitted, pWrites, pResult>>
    /\ UNCHANGED notPipeVars

\* A loop left before its last iteration.
LoopEnded_Early(i, bs) == TRUE

\* for (let i = 0; i < batches.length; i++) (translate.ts 280): the loop
\* ends when i has reached the number of batches.
LoopEnded(i, bs) == i >= Len(bs)

\* After the last batch: merge, write the output file and return
\* (translate.ts 126-148).
PipeWrite ==
    /\ pPc = "loop"
    /\ LoopEnded(pI, pBatches)
    /\ pTargetFile' = DocFile(WrittenDoc(pFormat,
                                         mergeTranslations(pEntries, pTranslated, pExisting)))
    /\ pWrites' = pWrites + 1
    /\ pResult' = [files |-> 1, chars |-> countCharacters(ValuesOf(pToTranslate))]
    /\ pPc' = "returned"
    /\ UNCHANGED <<pSource, pContent, pFormat, pTargetBefore, pDryRun, pRunNo, pipeLocals,
                   pRequests, pReplies, pSubmitted>>
    /\ UNCHANGED notPipeVars

PipeNext ==
    \/ PipeSkipEmpty
    \/ PipeSkipUpToDate
    \/ PipeDryRun
    \/ PipeBegin
    \/ PipeSend
    \/ PipeReceive
    \/ PipeClientError
    \/ PipeWrite

\* Only the file translation runs.
PipeSpecInit == PipeInit /\ BatchIdle /\ ClientIdle /\ PhIdle /\ DocIdle /\ MdIdle /\ RunIdle /\ FormatIdle

PipeSpec == PipeSpecInit /\ [][PipeNext]_vars

\* C2: when a run that is not a dry run has returned, every source key that
\* had a string value in the target file before the run has that same value
\* in the target file after it, whatever the service returned.
C2_ManualEditsPreserved ==
    (pPc = "returned" /\ ~pDryRun /\ pTargetBefore.state = "doc") =>
        \A i \in 1..Len(pEntries) :
            \A b \in Range(flattenJson(pTargetBefore.doc, <<>>)) :
                b.key = pEntries[i].key =>
                    \E e \in Range(flattenJson(pTargetFile.doc, <<>>)) :
                        e.key = b.key /\ e.value = b.value

\* C19: the only error swallowed while the existing target is loaded is its
\* absence; when the file at the output path exists but cannot be read or
\* parsed, the pair ends with an error: nothing is sent for translation and
\* the file is not overwritten. Stated for the sources with a translatable
\* string, for which the target is loaded.
C19_MalformedTargetSurfaced ==
    (pTargetBefore.state = "malformed" /\ flattenJson(pSource, <<>>) # <<>>) =>
        /\ pRequests = <<>> /\ pWrites = 0
        /\ pTargetFile = pTargetBefore

RECURSIVE Leaves(_, _)
\* The leaves of a document, each with its path of keys from the root.
Leaves(obj, path) ==
    UNION { IF obj[i].v.t = "obj"
            THEN Leaves(obj[i].v.o, Append(path, obj[i].k))
            ELSE {[path |-> Append(path, obj[i].k), v |-> obj[i].v]} : i \in 1..Len(obj) }

RECURSIVE NoDotInKeys(_)
\* No key of the document holds a dot: a path names one leaf only.
NoDotInKeys(obj) ==
    \A i \in 1..Len(obj) :
        /\ \A j \in 1..Len(obj[i].k) : obj[i].k[j] # Dot
        /\ obj[i].v.t = "obj" => NoDotInKeys(obj[i].v.o)

\* C20: the document written for a JSON/YAML pair has the shape of the
\* source document: every leaf path of the source is a leaf path of the
\* output, and the leaves that are not strings (numbers, booleans, null,
\* arrays) are in the output unchanged. Stated for the sources whose keys
\* hold no dot.
C20_SameShape ==
    (pPc = "returned" /\ pWrites = 1 /\ NoDotInKeys(pSource)) =>
        \A l \in Leaves(pSource, <<>>) :
            \E o \in Leaves(pTargetFile.doc, <<>>) :
                /\ o.path = l.path
                /\ l.v.t = "other" => o.v = l.v

\* The service returned, for every batch so far, one translation per string
\* submitted.
RepliesAligned ==
    \A b \in 1..Len(pReplies) : Len(pReplies[b]) = Len(pRequests[b])

\* Every batch of the pair has been sent and has returned.
AllBatchesReturned ==
    /\ pFormat \in KeyedFormats
    /\ pPc \in {"loop", "returned"}
    /\ pBatches # <<>>
    /\ pI = Len(pBatches)

\* No later entry of the diff has the key of entry i.
LastWithKey(entries, i) ==
    \A j \in (i + 1)..Len(entries) : entries[j].key # entries[i].key

\* C21: when the service returns for each batch one translation per
\* submitted string, then after all batches of the pair the keys of the
\* translated map are the keys of the diff, the i-th string submitted over
\* all batches is the masked value of entry i of the diff, and the key of
\* entry i maps to the i-th translation returned, restored with the
\* placeholders of entry i (for a key held by several entries, those of the
\* last of them), whatever the number of batches and their sizes.
C21_OrderAlignment ==
    (AllBatchesReturned /\ RepliesAligned) =>
        /\ KeysOf(pTranslated) = KeysOf(pToTranslate)
        /\ Len(Flatten(pRequests)) = Len(pToTranslate)
        /\ Len(Flatten(pReplies)) = Len(pToTranslate)
        /\ \A i \in 1..Len(pToTranslate) :
             LET own == protectPlaceholders(pToTranslate[i].value)
             IN /\ Flatten(pRequests)[i] = own.text
                /\ LastWithKey(pToTranslate, i) =>
                     MapGet(pTranslated, pToTranslate[i].key)
                         = restorePlaceholders(Flatten(pReplies)[i], own.placeholders)

\* Two batches returned one translation per string, the two answers differ
\* and the two entries have placeholders of their own.
C21_Witness ==
    /\ AllBatchesReturned /\ RepliesAligned
    /\ Len(pBatches) = 2
    /\ pReplies[1] # pReplies[2]
    /\ pProtected[1].protected.placeholders # pProtected[2].protected.placeholders

\* C25: within one pair the batches are translated in strict sequence: a
\* request is issued only when every earlier call has returned, and it is
\* the request for the next batch; at most one call is outstanding; and the
\* output is merged and written only when the call for the last batch has
\* returned.
C25_StrictSequence ==
    /\ [](Len(pRequests) - Len(pReplies) \in {0, 1})
    /\ [][/\ pRequests' # pRequests =>
               /\ Len(pReplies) = Len(pRequests)
               /\ Len(pRequests) < Len(pBatches)
               /\ pRequests' = Append(pRequests, pBatches[Len(pRequests) + 1])
          /\ pWrites' # pWrites =>
               /\ Len(pRequests) = Len(pBatches)
               /\ Len(pReplies) = Len(pBatches)
               /\ pRequests' = pRequests]_vars

\* A pair of two batches has been written: two requests, two returns.
C25_Witness ==
    /\ pPc = "returned" /\ pWrites = 1
    /\ Len(pBatches) = 2 /\ Len(pRequests) = 2 /\ Len(pReplies) = 2

(***************************************************************************)
(* translateMarkdownFile (translate.ts 218-255) on one pair, and the loop  *)
(* of translateFiles over the pairs of a run (translate.ts 45-82).         *)
(***************************************************************************)
\* A Markdown file with the text t.
TextFile(t) == [state |-> "text", doc |-> t]

\* !body.trim() (translate.ts 229): the body is empty or all white space.
IsBlank(body) == \A i \in 1..Len(body) : IsWhiteSpace(body[i])

\* The arrays the service may return for the one string of a Markdown
\* body: none, one or two translations.
MdServiceResults == SeqsUpTo(ServiceTexts, 2)

\* Empty body: return (translate.ts 226-232).
MdPairSkipEmpty ==
    /\ pPc = "start"
    /\ pFormat = "markdown"
    /\ IsBlank(splitMarkdown(pContent).body)
    /\ pMd' = splitMarkdown(pContent)
    /\ pPc' = "returned"
    /\ pResult' = NoResult
    /\ UNCHANGED <<pipeFiles, pEntries, pExisting, pToTranslate, pProtected, pBatches, pI,
                   pEntryIndex, pTranslated, pRequests, pReplies, pSubmitted, pWrites>>
    /\ UNCHANGED notPipeVars

\* Dry run: report the length of the body and return (translate.ts 226-239).
MdPairDryRun ==
    /\ pPc = "start"
    /\ pFormat = "markdown"
    /\ IsDryRun(pDryRun)
    /\ ~IsBlank(splitMarkdown(pContent).body)
    /\ pMd' = splitMarkdown(pContent)
    /\ pPc' = "returned"
    /\ pResult' = [files |-> 0, chars |-> Len(splitMarkdown(pContent).body)]
    /\ UNCHANGED <<pipeFiles, pEntries, pExisting, pToTranslate, pProtected, pBatches, pI,
                   pEntryIndex, pTranslated, pRequests, pReplies, pSubmitted, pWrites>>
    /\ UNCHANGED notPipeVars

\* client.translate(body, ...) is called with the whole body
\* (translate.ts 226-246).
MdPairSend ==
    /\ pPc = "start"
    /\ pFormat = "markdown"
    /\ ~IsDryRun(pDryRun)
    /\ ~IsBlank(splitMarkdown(pContent).body)
    /\ pMd' = splitMarkdown(pContent)
    /\ pRequests' = Append(pRequests, <<splitMarkdown(pContent).body>>)
    /\ pSubmitted' = pSubmitted + Len(splitMarkdown(pContent).body)
    /\ pPc' = "awaitBody"
    /\ UNCHANGED <<pipeFiles, pEntries, pExisting, pToTranslate, pProtected, pBatches, pI,
                   pEntryIndex, pTranslated, pReplies, pWrites, pResult>>
    /\ UNCHANGED notPipeVars

\* The call returns translations[0] (client.ts 59): with no translation
\* result.text throws; otherwise the output is assembled and written
\* (translate.ts 248-254).
MdPairReceive ==
    /\ pPc = "awaitBody"
    /\ \E results \in MdServiceResults :
         IF results = <<>>
         THEN /\ pPc' = "threw"
              /\ UNCHANGED <<pTargetFile, pWrites, pResult>>
         ELSE /\ pTargetFile' = TextFile(assembleMarkdown(pMd.frontmatter, results[1]))
              /\ pWrites' = pWrites + 1
              /\ pResult' = [files |-> 1, chars |-> Len(pMd.body)]
              /\ pPc' = "returned"
    /\ UNCHANGED <<pSource, pContent, pFormat, pTargetBefore, pDryRun, pRunNo, pipeLocals,
                   pRequests, pReplies, pSubmitted>>
    /\ UNCHANGED notPipeVars

\* The call throws (translate.ts 242).
MdPairClientError ==
    /\ pPc = "awaitBody"
    /\ pPc' = "threw"
    /\ UNCHANGED <<pipeFiles, pipeLocals, pRequests, pReplies, pSubmitted, pWrites, pResult>>
    /\ UNCHANGED notPipeVars

\* config.targetLanguages: one pair per language.
TargetLanguages == <<"de", "fr">>

\* The keys of the documents of a run, and the largest number of members of
\* a source and of an existing target.
RunKeys == {<<"a">>, <<"b">>}
MaxRunSrcKeys == 2
MaxRunTgtKeys == 1

RunSourceDocs ==
    DocsOver(RunKeys, {Str(SourceText), Str(PlaceholderText), Other}, MaxRunSrcKeys)
RunTargetFiles ==
    {AbsentFile, MalformedFile}
        \cup {DocFile(d) : d \in DocsOver(RunKeys, {Str(TargetText)}, MaxRunTgtKeys)}

\* Markdown contents: empty, blank, a body alone, a frontmatter alone, a
\* frontmatter and a body, and the same after a leading line feed.
RunContents ==
    { <<>>, <<NL>>, <<"x">>,
      <<Dash, Dash, Dash, NL, Dash, Dash, Dash>>,
      <<Dash, Dash, Dash, NL, Dash, Dash, Dash, "x">>,
      <<NL, Dash, Dash, Dash, NL, Dash, Dash, Dash, "x">> }
RunMarkdownTargets == {AbsentFile, TextFile(<<"y">>)}

\* The files of a pair: the format (config.format, or detectFormat of the
\* path), the source file and the file at the output path
\* (translate.ts 52-64).
PairFiles(format, source, content, target) ==
    /\ format \in KeyedFormats \cup {"markdown"}
    /\ IF format = "markdown"
       THEN source = <<>> /\ content \in RunContents /\ target \in RunMarkdownTargets
       ELSE source \in RunSourceDocs /\ content = <<>> /\ target \in RunTargetFiles

\* translateFiles starts on its first pair (translate.ts 48-64).
RunInit ==
    /\ rIdx = 1 /\ rPc = "running"
    /\ totalFiles = 0 /\ totalChars = 0
    /\ tRequests = 0 /\ tSubmitted = 0 /\ tWrites = 0
    /\ pDryRun \in BOOLEAN
    /\ pRunNo = 1
    /\ PairFiles(pFormat, pSource, pContent, pTargetFile)
    /\ pTargetBefore = pTargetFile
    /\ pPc = "start"
    /\ PipeLocalsIdle
    /\ pRequests = <<>> /\ pReplies = <<>> /\ pSubmitted = 0 /\ pWrites = 0 /\ pResult = NoResult

\* totalFiles += result.files; totalChars += result.chars
\* (translate.ts 76-77), with what the pair has done.
RunAccumulate ==
    /\ totalFiles' = totalFiles + pResult.files
    /\ totalChars' = totalChars + pResult.chars
    /\ tRequests' = tRequests + Len(pRequests)
    /\ tSubmitted' = tSubmitted + pSubmitted
    /\ tWrites' = tWrites + pWrites

\* A pair has returned and a language is left: add its result to the
\* totals and start the next pair (translate.ts 58-78).
RunNextPair ==
    /\ rPc = "running" /\ pPc = "returned"
    /\ rIdx < Len(TargetLanguages)
    /\ RunAccumulate
    /\ rIdx' = rIdx + 1
    /\ PairFiles(pFormat', pSource', pContent', pTargetFile')
    /\ pTargetBefore' = pTargetFile'
    /\ pPc' = "start"
    /\ pEntries' = <<>> /\ pExisting' = NullTarget /\ pToTranslate' = <<>>
    /\ pProtected' = <<>> /\ pBatches' = <<>> /\ pI' = 0 /\ pEntryIndex' = 0
    /\ pTranslated' = <<>> /\ pMd' = NoMarkdownFile
    /\ pRequests' = <<>> /\ pReplies' = <<>> /\ pSubmitted' = 0 /\ pWrites' = 0 /\ pResult' = NoResult
    /\ UNCHANGED <<pDryRun, pRunNo, rPc>>
    /\ UNCHANGED notRunVars

\* The last pair has returned: add its result and return the totals
\* (translate.ts 76-81).
RunReturn ==
    /\ rPc = "running" /\ pPc = "returned"
    /\ rIdx = Len(TargetLanguages)
    /\ RunAccumulate
    /\ rPc' = "done"
    /\ pPc' = "counted"
    /\ UNCHANGED <<rIdx, pipeFiles, pipeLocals, pRequests, pReplies, pSubmitted, pWrites, pResult>>
    /\ UNCHANGED notRunVars

\* A pair has thrown: the error leaves translateFiles (translate.ts 69-73).
RunAbort ==
    /\ rPc = "running" /\ pPc = "threw"
    /\ rPc' = "aborted"
    /\ pPc' = "propagated"
    /\ UNCHANGED <<rIdx, totalFiles, totalChars, tRequests, tSubmitted, tWrites>>
    /\ UNCHANGED <<pipeFiles, pipeLocals, pRequests, pReplies, pSubmitted, pWrites, pResult>>
    /\ UNCHANGED notRunVars

RunNext ==
    \/ PipeSkipEmpty
    \/ PipeSkipUpToDate
    \/ PipeDryRun
    \/ PipeBegin
    \/ PipeSend
    \/ PipeReceive
    \/ PipeClientError
    \/ PipeWrite
    \/ MdPairSkipEmpty
    \/ MdPairDryRun
    \/ MdPairSend
    \/ MdPairReceive
    \/ MdPairClientError
    \/ RunNextPair
    \/ RunReturn
    \/ RunAbort

\* A run of translateFiles.
RunSpecInit == RunInit /\ BatchIdle /\ ClientIdle /\ PhIdle /\ DocIdle /\ MdIdle /\ FormatIdle

RunSpec == RunSpecInit /\ [][RunNext]_vars

\* C17: in a run with the dry-run flag set, for every pair and every
\* format, no request is issued to the translation service and no output
\* file is written: the file at the output path is unchanged.
C17_DryRunNoRequestNoWrite ==
    pDryRun =>
        /\ pRequests = <<>> /\ tRequests = 0
        /\ pWrites = 0 /\ tWrites = 0
        /\ pTargetFile = pTargetBefore
        /\ totalFiles = 0 /\ pResult.files = 0

\* A dry run has returned after a pair with strings to translate and a
\* Markdown pair with a body, both counted.
C17_Witness ==
    /\ pDryRun /\ rPc = "done"
    /\ pFormat = "markdown" /\ ~IsBlank(pMd.body)
    /\ totalChars > Len(pMd.body)
    /\ tRequests = 0 /\ tWrites = 0

PairFailed == pPc \in {"threw", "propagated"}

\* C27: the output file of a pair is written at most once per run; it is
\* written only when every batch of the pair has been requested and has
\* returned (for a Markdown pair, the one call for the body); until then,
\* and for good if a call of the pair ends in an error, the file at the
\* output path is the one found at the start of the pair.
C27_WriteOnceAfterAllBatches ==
    /\ pWrites <= 1
    /\ pWrites = 0 => pTargetFile = pTargetBefore
    /\ PairFailed => pWrites = 0
    /\ pWrites = 1 =>
         /\ pPc \in {"returned", "counted"}
         /\ pRequests # <<>>
         /\ pFormat \in KeyedFormats =>
              /\ Len(pRequests) = Len(pBatches)
              /\ Len(pReplies) = Len(pBatches)
              /\ pRequests = pBatches

\* The second batch of a pair ended in an error after the first had been
\* translated, with a target file in place.
C27_Witness ==
    /\ PairFailed
    /\ Len(pBatches) = 2 /\ Len(pRequests) = 2 /\ Len(pReplies) = 1
    /\ pTranslated # <<>>
    /\ pTargetBefore.state = "doc"

(***************************************************************************)
(* The action run again on a pair: a run of translateJsonFile or           *)
(* translateYamlFile (translate.ts 84-216) that has written its target,    *)
(* followed by runs on the same source and the file it has left.           *)
(***************************************************************************)
\* The largest number of runs on a pair.
MaxRuns == 2

\* The file at the output path before the first run: missing, not
\* parseable, an empty document, a translation of the key a, or an object
\* under the key a.
RerunTargetFiles ==
    { AbsentFile, MalformedFile, DocFile(<<>>),
      DocFile(<< [k |-> <<"a">>, v |-> Str(TargetText)] >>),
      DocFile(<< [k |-> <<"a">>,
                  v |-> Obj(<< [k |-> <<"b">>, v |-> Str(TargetText)] >>)] >>) }

\* The first run: a JSON or YAML pair, not a dry run.
RerunInit ==
    /\ pSource \in PipeSourceDocs
    /\ pTargetFile \in RerunTargetFiles
    /\ pTargetBefore = pTargetFile
    /\ pDryRun = FALSE
    /\ pRunNo = 1
    /\ pFormat \in KeyedFormats /\ pContent = <<>>
    /\ pPc = "start"
    /\ PipeLocalsIdle
    /\ pRequests = <<>> /\ pReplies = <<>> /\ pSubmitted = 0 /\ pWrites = 0 /\ pResult = NoResult

\* The run has written the target and returned; the next run starts on the
\* same source file and finds the file just written at the output path
\* (translate.ts 92-108).
PipeRerun ==
    /\ pPc = "returned" /\ pWrites = 1
    /\ pRunNo < MaxRuns
    /\ pRunNo' = pRunNo + 1
    /\ pTargetBefore' = pTargetFile
    /\ pPc' = "start"
    /\ pEntries' = <<>> /\ pExisting' = NullTarget /\ pToTranslate' = <<>>
    /\ pProtected' = <<>> /\ pBatches' = <<>> /\ pI' = 0 /\ pEntryIndex' = 0
    /\ pTranslated' = <<>> /\ pMd' = NoMarkdownFile
    /\ pRequests' = <<>> /\ pReplies' = <<>> /\ pSubmitted' = 0 /\ pWrites' = 0 /\ pResult' = NoResult
    /\ UNCHANGED <<pSource, pContent, pFormat, pTargetFile, pDryRun>>
    /\ UNCHANGED notPipeVars

RerunNext ==
    \/ PipeSkipEmpty
    \/ PipeSkipUpToDate
    \/ PipeBegin
    \/ PipeSend
    \/ PipeReceive
    \/ PipeClientError
    \/ PipeWrite
    \/ PipeRerun

RerunSpecInit == RerunInit /\ BatchIdle /\ ClientIdle /\ PhIdle /\ DocIdle /\ MdIdle /\ RunIdle /\ FormatIdle

RerunSpec == RerunSpecInit /\ [][RerunNext]_vars

Slash == "/"

\* The letters, in alphabetical order.
UpperLetters == <<"A", "B", "C", "D", "E", "F", "G", "H", "I", "J", "K", "L", "M",
                  "N", "O", "P", "Q", "R", "S", "T", "U", "V", "W", "X", "Y", "Z">>
LowerLetters == <<"a", "b", "c", "d", "e", "f", "g", "h", "i", "j", "k", "l", "m",
                  "n", "o", "p", "q", "r", "s", "t", "u", "v", "w", "x", "y", "z">>

\* String.prototype.toLowerCase on the characters of the model.
toLowerCase(s) ==
    [i \in 1..Len(s) |->
        IF s[i] \in Upper
        THEN LowerLetters[CHOOSE n \in 1..26 : UpperLetters[n] = s[i]]
        ELSE s[i]]

RECURSIVE StripTrailingSlashes(_)
StripTrailingSlashes(p) ==
    IF p # <<>> /\ p[Len(p)] = Slash THEN StripTrailingSlashes(SubSeq(p, 1, Len(p) - 1))
    ELSE p

\* The last component of a path: what follows its last separator, trailing
\* separators left out.
BaseName(p) ==
    LET q == StripTrailingSlashes(p)
        cuts == {i \in 1..Len(q) : q[i] = Slash}
        from == IF cuts = {} THEN 1 ELSE (CHOOSE i \in cuts : \A j \in cuts : j <= i) + 1
    IN SubSeq(q, from, Len(q))

\* path.extname(filePath) (main.ts 158): from the last dot of the last
\* component to its end; empty when there is no dot, when the only dot is
\* the first character of the component, and for the component "..".
extname(p) ==
    LET b == BaseName(p)
        dots == {i \in 1..Len(b) : b[i] = Dot}
        last == CHOOSE i \in dots : \A j \in dots : j <= i
    IN IF dots = {} \/ last = 1 \/ b = <<Dot, Dot>> THEN <<>>
       ELSE SubSeq(b, last, Len(b))

\* detectFormat(filePath) (main.ts 157-163).
detectFormat(filePath) ==
    LET ext == toLowerCase(extname(filePath))
    IN IF ext = <<Dot, "m", "d">> \/ ext = <<Dot, "m", "d", "x">>
       THEN "markdown"
       ELSE "json"

\* The pieces the paths explored are made of, and their largest number.
PathPieces ==
    { <<"e", "n">>, <<Slash>>, <<Dot>>, <<Dot, "m", "d">>, <<Dot, "m", "d", "x">>,
      <<Dot, "M", "D">>, <<Dot, "y", "a", "m", "l">>, <<Dot, "y", "m", "l">>,
      <<Dot, "j", "s", "o", "n">>, <<Dot, "t", "x", "t">> }
MaxPathPieces == 3

FormatInit ==
    /\ fPath \in {Flatten(ps) : ps \in SeqsUpTo(PathPieces, MaxPathPieces)}
    /\ fFormat = ""
    /\ fPc = "start"

\* config.format === "auto" ? detectFormat(sourceFile) : ... (translate.ts 54).
FormatDetect ==
    /\ fPc = "start"
    /\ fFormat' = detectFormat(fPath)
    /\ fPc' = "detected"
    /\ UNCHANGED fPath
    /\ UNCHANGED notFmtVars

FormatNext == FormatDetect

FormatSpecInit == FormatInit /\ BatchIdle /\ ClientIdle /\ PhIdle /\ DocIdle /\ PipeIdle /\ MdIdle /\ RunIdle

FormatSpec == FormatSpecInit /\ [][FormatNext]_vars

\* The path ends with the extension ext, in any letter case, after a name.
HasExtension(p, ext) == toLowerCase(extname(p)) = ext

\* C24 (Markdown and JSON part): .md and .mdx give "markdown", every
\* extension other than .md, .mdx, .yaml and .yml gives "json".
C24_MarkdownAndJson ==
    fPc = "detected" =>
        IF HasExtension(fPath, <<Dot, "m", "d">>) \/ HasExtension(fPath, <<Dot, "m", "d", "x">>)
        THEN fFormat = "markdown"
        ELSE (~HasExtension(fPath, <<Dot, "y", "a", "m", "l">>)
              /\ ~HasExtension(fPath, <<Dot, "y", "m", "l">>)) => fFormat = "json"

\* C24: detectFormat maps a path to its format by extension: .md and .mdx
\* give "markdown", .yaml and .yml give "yaml", .json and every other
\* extension give "json".
C24_FormatByExtension ==
    fPc = "detected" =>
        fFormat = IF HasExtension(fPath, <<Dot, "m", "d">>)
                     \/ HasExtension(fPath, <<Dot, "m", "d", "x">>)
                  THEN "markdown"
                  ELSE IF HasExtension(fPath, <<Dot, "y", "a", "m", "l">>)
                          \/ HasExtension(fPath, <<Dot, "y", "m", "l">>)
                       THEN "yaml"
                       ELSE "json"

====
